---- MODULE Spec2Model ----
(***************************************************************************)
(* A model of the evm-rs-emulator execution engine: the Runner (one frame  *)
(* of execution), the EvmState world state, the Memory and the Stack, the  *)
(* opcode handlers of the call/create protocol and the dispatch loop.      *)
(*                                                                         *)
(* Words are [u8; 32] arrays, addresses [u8; 20] arrays and memories       *)
(* Vec<u8>, as in the source: all three are sequences of bytes here.       *)
(* Runner::call is recursive in the source (it runs interpret on the       *)
(* sub-frame); here the pending invocations of Runner::call are the        *)
(* records of callStack, which hold its initial_* locals and the locals    *)
(* of the opcode handler that called it.                                   *)
(***************************************************************************)
EXTENDS Integers, Sequences, FiniteSets, TLC

(***************************************************************************)
(* Bounds of the model.                                                    *)
(***************************************************************************)
\* Runner::call is entered only while call_depth is below this bound.
MaxDepth == 3

(***************************************************************************)
(* Program constants.                                                      *)
(***************************************************************************)
WordSize == 32
AddressSize == 20
StackLimit == 1024

\* Opcode bytes, as dispatched by Runner::interpret_op_code.
OP_STOP == 0
OP_CALLDATALOAD == 53
OP_CALLDATASIZE == 54
OP_CALLDATACOPY == 55
OP_RETURNDATASIZE == 61
OP_MSTORE == 82
OP_SLOAD == 84
OP_SSTORE == 85
OP_JUMP == 86
OP_JUMPI == 87
OP_JUMPDEST == 91
OP_PUSH0 == 95
OP_LOG0 == 160
OP_LOG2 == 162
OP_CREATE == 240
OP_CALL == 241
OP_CALLCODE == 242
OP_RETURN == 243
OP_DELEGATECALL == 244
OP_CREATE2 == 245
OP_STATICCALL == 250
OP_REVERT == 253
OP_INVALID == 254
OP_SELFDESTRUCT == 255

(***************************************************************************)
(* Bytes, words and addresses (utils/bytes.rs).                            *)
(***************************************************************************)
Zeros(n) == [i \in 1..n |-> 0]

ZeroWord == Zeros(WordSize)

pad_left(bytes) == Zeros(WordSize - Len(bytes)) \o bytes

bytes32_to_address(bytes) == SubSeq(bytes, WordSize - AddressSize + 1, WordSize)

\* position / rposition of the first and last non-zero byte; both default to
\* index 0 (the first byte) when every byte is zero.
strip_zero_padding(arr) ==
    LET nz == {i \in 1..Len(arr) : arr[i] # 0}
        start == IF nz = {} THEN 1 ELSE CHOOSE i \in nz : \A j \in nz : i <= j
        end == IF nz = {} THEN 1 ELSE CHOOSE i \in nz : \A j \in nz : j <= i
    IN SubSeq(arr, start, end)

\* U256::from(n).to_big_endian for a u64 n; the model's counters stay below
\* 2^24, so only the low three bytes can be non-zero.
u64_to_u256_array(n) ==
    [i \in 1..WordSize |->
        IF i = WordSize THEN n % 256
        ELSE IF i = WordSize - 1 THEN (n \div 256) % 256
        ELSE IF i = WordSize - 2 THEN (n \div 65536) % 256
        ELSE 0]

\* U256::from_big_endian(word).as_usize(); as_usize panics when the value
\* does not fit, which the model's programs never ask for.
fits_usize(word) == \A i \in 1..(WordSize - 3) : word[i] = 0

as_usize(word) ==
    word[WordSize - 2] * 65536 + word[WordSize - 1] * 256 + word[WordSize]

(***************************************************************************)
(* U256 arithmetic on big-endian byte arrays (ethers::types::U256 as used  *)
(* by EvmState::transfer).                                                 *)
(***************************************************************************)
RECURSIVE U256_add_from(_, _, _, _)
U256_add_from(a, b, i, carry) ==
    IF i = 0 THEN <<>>
    ELSE LET s == a[i] + b[i] + carry
         IN U256_add_from(a, b, i - 1, s \div 256) \o <<s % 256>>

U256_add(a, b) == U256_add_from(a, b, WordSize, 0)

RECURSIVE U256_sub_from(_, _, _, _)
U256_sub_from(a, b, i, borrow) ==
    IF i = 0 THEN <<>>
    ELSE LET d == a[i] - b[i] - borrow
         IN U256_sub_from(a, b, i - 1, IF d < 0 THEN 1 ELSE 0)
                \o <<IF d < 0 THEN d + 256 ELSE d>>

U256_sub(a, b) == U256_sub_from(a, b, WordSize, 0)

U256_lt(a, b) ==
    \E i \in 1..WordSize : a[i] < b[i] /\ \A j \in 1..(i - 1) : a[j] = b[j]

(***************************************************************************)
(* Unsigned integers of any width as big-endian byte strings: the          *)
(* arithmetic behind U256::overflowing_add, overflowing_mul, checked_rem   *)
(* and checked_div, and the unbounded sums and products they stand for.    *)
(***************************************************************************)
\* a < b, for a and b of one length.
Bytes_lt(a, b) ==
    \E i \in 1..Len(a) : a[i] < b[i] /\ \A j \in 1..(i - 1) : a[j] = b[j]

\* The bytes of the number whose base-256 digits, not yet reduced, are cols:
\* the columns lo..hi with the carry coming in from the right, and the carry
\* going out to the left.  The range is halved to keep the evaluation shallow.
RECURSIVE Bytes_carry_from(_, _, _, _)
Bytes_carry_from(cols, lo, hi, carry) ==
    IF lo = hi
    THEN [bytes |-> <<(cols[lo] + carry) % 256>>,
          carry |-> (cols[lo] + carry) \div 256]
    ELSE LET mid == (lo + hi) \div 2
             right == Bytes_carry_from(cols, mid + 1, hi, carry)
             left == Bytes_carry_from(cols, lo, mid, right.carry)
         IN IF right.carry < 0 THEN right
            ELSE [bytes |-> left.bytes \o right.bytes, carry |-> left.carry]

\* The first column absorbs the last carry.
Bytes_carry(cols) == Bytes_carry_from(cols, 1, Len(cols), 0).bytes

\* a + b in Len(a) + 1 bytes, for a and b of one length.
Bytes_add(a, b) == Bytes_carry(<<0>> \o [i \in 1..Len(a) |-> a[i] + b[i]])

\* a - b in Len(a) bytes, for a >= b of one length: byte i borrows when, to
\* its right, a byte of a is smaller than b's and all bytes between are equal.
Bytes_sub(a, b) ==
    [i \in 1..Len(a) |->
        LET borrow == IF \E j \in (i + 1)..Len(a) :
                             /\ a[j] < b[j]
                             /\ \A k \in (i + 1)..(j - 1) : a[k] = b[k]
                      THEN 1 ELSE 0
        IN (a[i] - b[i] - borrow + 256) % 256]

\* a * d in Len(a) + 1 bytes, for a byte d.
Bytes_scale(a, d) == Bytes_carry(<<0>> \o [i \in 1..Len(a) |-> a[i] * d])

\* The last n bytes of a: a modulo 256^n.
Bytes_low(a, n) == SubSeq(a, Len(a) - n + 1, Len(a))

\* The sum of the terms lo..hi of a sequence of numbers.
RECURSIVE SumOf(_, _, _)
SumOf(terms, lo, hi) ==
    IF lo > hi THEN 0
    ELSE IF lo = hi THEN terms[lo]
    ELSE SumOf(terms, lo, (lo + hi) \div 2)
             + SumOf(terms, ((lo + hi) \div 2) + 1, hi)

\* a * b in Len(a) + Len(b) bytes: column k collects the products of the
\* bytes whose weights multiply to 256^(Len(a) + Len(b) - k).
Bytes_mul(a, b) ==
    Bytes_carry([k \in 1..(Len(a) + Len(b)) |->
        SumOf([i \in 1..Len(a) |->
                  IF k - i \in 1..Len(b) THEN a[i] * b[k - i] ELSE 0],
              1, Len(a))])

\* d + bit if c * (d + bit) <= r, else d.
Bytes_try(r, c, d, bit) ==
    IF ~Bytes_lt(r, Bytes_scale(c, d + bit)) THEN d + bit ELSE d

\* The largest byte d with c * d <= r, for r < 256 * c, found bit by bit; r
\* has one byte more than c.
Bytes_digit(r, c) ==
    Bytes_try(r, c, Bytes_try(r, c, Bytes_try(r, c, Bytes_try(r, c,
        Bytes_try(r, c, Bytes_try(r, c, Bytes_try(r, c, Bytes_try(r, c,
            0, 128), 64), 32), 16), 8), 4), 2), 1)

\* Long division by c # 0 of the bytes lo..hi of x, most significant first,
\* after bytes that left the remainder r: the quotient bytes and the new
\* remainder.  The range is halved to keep the evaluation shallow.
RECURSIVE Bytes_divrem_from(_, _, _, _, _)
Bytes_divrem_from(x, c, lo, hi, r) ==
    IF lo = hi
    THEN LET d == Bytes_digit(r \o <<x[lo]>>, c)
         IN [quotient |-> <<d>>,
             remainder |-> Bytes_low(Bytes_sub(r \o <<x[lo]>>, Bytes_scale(c, d)),
                                     Len(c))]
    ELSE LET mid == (lo + hi) \div 2
             left == Bytes_divrem_from(x, c, lo, mid, r)
             right == Bytes_divrem_from(x, c, mid + 1, hi, left.remainder)
         IN IF left.remainder = <<>> THEN left
            ELSE [quotient |-> left.quotient \o right.quotient,
                  remainder |-> right.remainder]

Bytes_divrem(x, c) == Bytes_divrem_from(x, c, 1, Len(x), Zeros(Len(c)))

\* U256::overflowing_add and U256::overflowing_mul: the result modulo 2^256.
U256_overflowing_add(a, b) == Bytes_low(Bytes_add(a, b), WordSize)

U256_overflowing_mul(a, b) == Bytes_low(Bytes_mul(a, b), WordSize)

\* U256::checked_rem and U256::checked_div followed by unwrap_or(0).
U256_rem_or_zero(a, c) ==
    IF c = Zeros(WordSize) THEN Zeros(WordSize)
    ELSE Bytes_divrem(a, c).remainder

U256_div_or_zero(a, c) ==
    IF c = Zeros(WordSize) THEN Zeros(WordSize)
    ELSE Bytes_divrem(a, c).quotient

\* I256 (ethers): a word read as a two's-complement number.
I256_MIN == <<128>> \o Zeros(WordSize - 1)

I256_minus_one == [i \in 1..WordSize |-> 255]

I256_is_negative(x) == x[1] >= 128

\* I256::twos_complement: the negation modulo 2^256.
I256_twos_complement(x) ==
    U256_overflowing_add([i \in 1..WordSize |-> 255 - x[i]], pad_left(<<1>>))

I256_unsigned_abs(x) == IF I256_is_negative(x) THEN I256_twos_complement(x) ELSE x

\* I256::overflowing_div for a non-zero divisor: the quotient of the
\* magnitudes, negated when the signs differ.
I256_overflowing_div(a, b) ==
    LET d == U256_div_or_zero(I256_unsigned_abs(a), I256_unsigned_abs(b))
    IN IF I256_is_negative(a) # I256_is_negative(b)
       THEN I256_twos_complement(d) ELSE d

\* I256::checked_div followed by unwrap_or(0): None for a zero divisor and
\* for the one quotient that overflows, MIN / -1.
I256_div_or_zero(a, b) ==
    IF b = ZeroWord \/ (a = I256_MIN /\ b = I256_minus_one)
    THEN ZeroWord
    ELSE I256_overflowing_div(a, b)

(***************************************************************************)
(* keccak256 is modelled as an injective encoding of its input: the hash   *)
(* of a byte string is the string with its length in front.  It never      *)
(* equals the zero word, as no known input of keccak256 hashes to zero.    *)
(* The low 20 bytes of a hash (hash[12..]) keep the first byte of the      *)
(* input, its bytes 21, 22 and 53 (the low byte of the caller and of the   *)
(* salt) and its last two bytes, which tells apart every input the         *)
(* model's programs hash.                                                  *)
(***************************************************************************)
keccak256(bytes) == <<Len(bytes)>> \o bytes

keccak256_low20(input) ==
    [i \in 1..AddressSize |->
        IF i = 1 THEN input[1]
        ELSE IF i = AddressSize - 4 THEN input[AddressSize + 1]
        ELSE IF i = AddressSize - 3 THEN input[AddressSize + 2]
        ELSE IF i = AddressSize - 2
             THEN (IF Len(input) > AddressSize + WordSize
                   THEN input[AddressSize + WordSize + 1] ELSE 0)
        ELSE IF i = AddressSize - 1 THEN input[Len(input) - 1]
        ELSE IF i = AddressSize THEN input[Len(input)]
        ELSE 0]

(***************************************************************************)
(* Memory (memory.rs).  heap is the Vec<u8>.                               *)
(***************************************************************************)
Memory_extend(heap, size) == heap \o Zeros(size)

\* The "nearest multiple of 32" of read, mload and mstore.
nearest_multiple(address) ==
    IF address % 32 = 0 THEN address + 32
    ELSE (address + 32) + (32 - ((address + 32) % 32))

\* The "nearest multiple of 32" of write.
nearest_multiple_write(address, len) ==
    IF address % 32 = 0 THEN address + len + 32
    ELSE (address + len + 32) + (32 - ((address + len + 32) % 32))

\* read computes nearest_multiple - heap.len() in usize: it aborts when the
\* heap is already longer than the length it wants to extend to.
Memory_read_panics(heap, address, size) ==
    /\ address + size > Len(heap)
    /\ nearest_multiple(address) < Len(heap)

Memory_read_heap(heap, address, size) ==
    IF address + size > Len(heap)
    THEN Memory_extend(heap, nearest_multiple(address) - Len(heap))
    ELSE heap

\* ptr::copy of size bytes from heap[address..]: a byte past the end of the
\* extended heap is an out-of-bounds read, whose value is junk.
Memory_read(heap, address, size, junk) ==
    LET h == Memory_read_heap(heap, address, size)
    IN [i \in 1..size |-> IF address + i <= Len(h) THEN h[address + i] ELSE junk]

Memory_write(heap, address, data) ==
    LET h == IF address + Len(data) > Len(heap)
             THEN Memory_extend(heap,
                      nearest_multiple_write(address, Len(data)) - Len(heap))
             ELSE heap
    IN [i \in 1..Len(h) |->
           IF i > address /\ i <= address + Len(data) THEN data[i - address]
           ELSE h[i]]

Memory_mstore(heap, address, data) ==
    LET h == IF address + 32 > Len(heap)
             THEN Memory_extend(heap, nearest_multiple(address) - Len(heap))
             ELSE heap
    IN [i \in 1..Len(h) |->
           IF i > address /\ i <= address + 32 THEN data[i - address]
           ELSE h[i]]

Memory_mload_heap(heap, address) ==
    IF address + 32 > Len(heap)
    THEN Memory_extend(heap, nearest_multiple(address) - Len(heap))
    ELSE heap

Memory_mload(heap, address) ==
    LET h == Memory_mload_heap(heap, address)
    IN [i \in 1..32 |-> h[address + i]]

(***************************************************************************)
(* Stack (stack.rs).  The top of the stack is the last element.            *)
(***************************************************************************)
Stack_push_fails(stack) == Len(stack) >= StackLimit

Stack_push(stack, word) == Append(stack, word)

\* n successive pops: all succeed, or the stack runs empty and the failing
\* pop returns StackTooSmall.
Stack_pop_fails(stack, n) == Len(stack) < n

Stack_popped(stack, n) ==
    IF Len(stack) < n THEN <<>> ELSE SubSeq(stack, 1, Len(stack) - n)

\* The k-th word popped.
Stack_nth(stack, k) == stack[Len(stack) - k + 1]

\* Stack::push, Stack::pop, Stack::dup and Stack::swap as calls: the error
\* returned ("None" for Ok) and the stack as the call leaves it.  "Panic" is
\* the call not returning: the thread panics on the index it computes.
Stack_push_call(stack, word) ==
    IF Stack_push_fails(stack)
    THEN [err |-> "StackTooDeep", stack |-> stack]
    ELSE [err |-> "None", stack |-> Stack_push(stack, word)]

Stack_pop(stack) ==
    IF stack = <<>>
    THEN [err |-> "StackTooSmall", stack |-> stack]
    ELSE [err |-> "None", stack |-> Stack_popped(stack, 1)]

\* Stack::dup copying the index-th word from the bottom.
Stack_dup_FromBottom(stack, index) ==
    IF Len(stack) < index
    THEN [err |-> "StackTooSmall", stack |-> stack]
    ELSE [err |-> "None", stack |-> Append(stack, stack[index])]

Stack_dup(stack, index) ==
    IF Len(stack) < index
    THEN [err |-> "StackTooSmall", stack |-> stack]
    ELSE [err |-> "None",
          stack |-> Append(stack, stack[Len(stack) - index + 1])]

\* word2 is self.stack[len - 1 - index]: with len = index the index is
\* usize -1, and the subtraction or the indexing panics.
Stack_swap(stack, index) ==
    IF Len(stack) < index
    THEN [err |-> "StackTooSmall", stack |-> stack]
    ELSE IF Len(stack) - 1 - index < 0
    THEN [err |-> "Panic", stack |-> stack]
    ELSE LET len == Len(stack)
             word1 == stack[len]
             word2 == stack[len - index]
         IN [err |-> "None",
             stack |-> [stack EXCEPT ![len] = word2, ![len - index] = word1]]

(***************************************************************************)
(* The world state (state.rs, utils/environment.rs).  accounts and codes   *)
(* are HashMaps: functions whose domain is the set of keys present.  An    *)
(* operation that can fail returns a record with the error in err ("None"  *)
(* for Ok) and the maps as the operation leaves them.                      *)
(***************************************************************************)
MapPut(map, key, value) ==
    [k \in DOMAIN map \cup {key} |-> IF k = key THEN value ELSE map[k]]

MapRemove(map, key) == [k \in DOMAIN map \ {key} |-> map[k]]

EmptyMap == [k \in {} |-> 0]

get_balance(accts, addr) ==
    IF addr \in DOMAIN accts
    THEN [err |-> "None", balance |-> accts[addr].balance]
    ELSE [err |-> "AccountNotFound", balance |-> ZeroWord]

get_nonce(accts, addr) ==
    IF addr \in DOMAIN accts
    THEN [err |-> "None", nonce |-> u64_to_u256_array(accts[addr].nonce)]
    ELSE [err |-> "AccountNotFound", nonce |-> ZeroWord]

increment_nonce(accts, addr) ==
    IF addr \in DOMAIN accts
    THEN [err |-> "None",
          accounts |-> [accts EXCEPT ![addr].nonce = accts[addr].nonce + 1]]
    ELSE [err |-> "AccountNotFound", accounts |-> accts]

\* An init_account that increments the nonce of a record it finds.
init_account_Bumping(accts, addr) ==
    increment_nonce(
        IF addr \in DOMAIN accts THEN accts
        ELSE MapPut(accts, addr,
                 [nonce |-> 0, balance |-> ZeroWord,
                  storage |-> EmptyMap, code_hash |-> ZeroWord]),
        addr)

init_account(accts, addr) ==
    IF addr \in DOMAIN accts
    THEN [err |-> "None", accounts |-> accts]
    ELSE increment_nonce(
             MapPut(accts, addr,
                 [nonce |-> 0, balance |-> ZeroWord,
                  storage |-> EmptyMap, code_hash |-> ZeroWord]),
             addr)

delete_account(accts, addr) == MapRemove(accts, addr)

\* A transfer that debits the sender and credits nobody.
EvmState_transfer_NoCredit(accts, static, from, to, value) ==
    IF static THEN [err |-> "StaticCallStateChanged", accounts |-> accts]
    ELSE IF from \notin DOMAIN accts \/ to \notin DOMAIN accts
    THEN [err |-> "AccountNotFound", accounts |-> accts]
    ELSE IF U256_lt(accts[from].balance, value)
    THEN [err |-> "InsufficientBalance", accounts |-> accts]
    ELSE [err |-> "None",
          accounts |-> [accts EXCEPT ![from].balance = U256_sub(@, value)]]

EvmState_transfer(accts, static, from, to, value) ==
    IF static THEN [err |-> "StaticCallStateChanged", accounts |-> accts]
    ELSE IF from \notin DOMAIN accts \/ to \notin DOMAIN accts
    THEN [err |-> "AccountNotFound", accounts |-> accts]
    ELSE IF U256_lt(accts[from].balance, value)
    THEN [err |-> "InsufficientBalance", accounts |-> accts]
    ELSE LET new_from_balance == U256_sub(accts[from].balance, value)
             new_to_balance == U256_add(accts[to].balance, value)
             from_written == [accts EXCEPT ![from].balance = new_from_balance]
         IN [err |-> "None",
             accounts |-> [from_written EXCEPT ![to].balance = new_to_balance]]

\* fetched is the provider's answer, [ok, value], read only when the account
\* has no record and a provider is set.
EvmState_sload(accts, provider, account, slot, fetched) ==
    IF account \in DOMAIN accts
    THEN [value |-> IF slot \in DOMAIN accts[account].storage
                    THEN accts[account].storage[slot] ELSE ZeroWord,
          accounts |-> accts]
    ELSE IF ~provider THEN [value |-> ZeroWord, accounts |-> accts]
    ELSE IF fetched.ok
    THEN [value |-> fetched.value,
          accounts |->
              IF account \in DOMAIN accts
              THEN [accts EXCEPT ![account].storage =
                        MapPut(accts[account].storage, slot, fetched.value)]
              ELSE accts]
    ELSE [value |-> ZeroWord, accounts |-> accts]

\* An sstore that returns Ok without inserting.
EvmState_sstore_Dropped(accts, static, account, slot, value) ==
    IF static THEN [err |-> "StaticCallStateChanged", accounts |-> accts]
    ELSE IF account \in DOMAIN accts
    THEN [err |-> "None", accounts |-> accts]
    ELSE [err |-> "AccountNotFound", accounts |-> accts]

EvmState_sstore(accts, static, account, slot, value) ==
    IF static THEN [err |-> "StaticCallStateChanged", accounts |-> accts]
    ELSE IF account \in DOMAIN accts
    THEN [err |-> "None",
          accounts |-> [accts EXCEPT ![account].storage =
                            MapPut(accts[account].storage, slot, value)]]
    ELSE [err |-> "AccountNotFound", accounts |-> accts]

get_code(cds, code_hash) ==
    IF code_hash \in DOMAIN cds
    THEN [err |-> "None", code |-> cds[code_hash]]
    ELSE [err |-> "CodeNotFound", code |-> <<>>]

\* fetched is the provider's answer, [ok, value], as for sload.
EvmState_get_code_at(accts, cds, provider, addr, fetched) ==
    IF addr \in DOMAIN accts
    THEN LET found == get_code(cds, accts[addr].code_hash)
         IN [err |-> found.err, code |-> found.code,
             accounts |-> accts, codes |-> cds]
    ELSE IF ~provider
    THEN [err |-> "CodeNotFound", code |-> <<>>, accounts |-> accts, codes |-> cds]
    ELSE IF fetched.ok
    THEN LET code_hash == keccak256(fetched.value)
         IN [err |-> "None", code |-> fetched.value,
             accounts |-> IF addr \in DOMAIN accts
                          THEN [accts EXCEPT ![addr].code_hash = code_hash]
                          ELSE accts,
             codes |-> MapPut(cds, code_hash, fetched.value)]
    ELSE [err |-> "CodeNotFound", code |-> <<>>, accounts |-> accts, codes |-> cds]

put_code(cds, static, code) ==
    IF static
    THEN [err |-> "StaticCallStateChanged", code_hash |-> ZeroWord, codes |-> cds]
    ELSE [err |-> "None", code_hash |-> keccak256(code),
          codes |-> MapPut(cds, keccak256(code), code)]

\* A put_code_at that sets the account's code_hash and leaves the code table
\* as it was.
EvmState_put_code_at_Unstored(accts, cds, static, addr, code) ==
    LET put == put_code(cds, static, code)
    IN IF put.err # "None"
       THEN [err |-> put.err, accounts |-> accts, codes |-> cds]
       ELSE IF addr \in DOMAIN accts
       THEN [err |-> "None",
             accounts |-> [accts EXCEPT ![addr].code_hash = put.code_hash],
             codes |-> cds]
       ELSE [err |-> "AccountNotFound", accounts |-> accts, codes |-> cds]

EvmState_put_code_at(accts, cds, static, addr, code) ==
    LET put == put_code(cds, static, code)
    IN IF put.err # "None"
       THEN [err |-> put.err, accounts |-> accts, codes |-> cds]
       ELSE IF addr \in DOMAIN accts
       THEN [err |-> "None",
             accounts |-> [accts EXCEPT ![addr].code_hash = put.code_hash],
             codes |-> put.codes]
       ELSE [err |-> "AccountNotFound", accounts |-> accts, codes |-> put.codes]

(***************************************************************************)
(* The state.  The Runner's fields, the EvmState's fields, the position    *)
(* of the dispatch loop and the pending invocations of Runner::call.       *)
(***************************************************************************)
VARIABLES
    \* Runner: execution
    pc, bytecode, debug_level, call_depth,
    \* Runner: environment
    origin, caller, callvalue, address,
    \* Runner: data
    memory, calldata, returndata, stack,
    \* EvmState
    accounts, codes, logs, static_mode, provider,
    \* interpret: whether the outermost interpret has been called, and the
    \* error the running frame's interpret loop broke on ("None" if none)
    interpreting, error,
    \* the pending invocations of Runner::call, innermost last
    callStack,
    \* observation only: how the running frame halted (STOP, RETURN, REVERT)
    halted,
    \* observation only: the call-class opcode that has just entered its
    \* sub-frame or has just completed, with the state before the opcode
    lastOp,
    \* observation only: the address derivations of CREATE, over this run of
    \* the program and the runs before it
    derived,
    \* observation only: the method of Stack, Memory or EvmState that was
    \* called last on its own, with its arguments, the object before the call
    \* and what the call returned
    applied

frame == <<pc, bytecode, debug_level, call_depth, caller, callvalue, address,
           memory, calldata, returndata, stack>>

world == <<accounts, codes, logs, static_mode>>

vars == <<pc, bytecode, debug_level, call_depth, origin, caller, callvalue,
          address, memory, calldata, returndata, stack, accounts, codes, logs,
          static_mode, provider, interpreting, error, callStack, halted, lastOp,
          derived, applied>>

\* Option<u8>: None is the empty sequence, Some(n) is <<n>>.
None == <<>>
Some(n) == <<n>>

(***************************************************************************)
(* Inputs: addresses, bytecode and the provider's answers.                 *)
(***************************************************************************)
Addr(id) == [i \in 1..AddressSize |-> IF i = AddressSize THEN id ELSE 0]

CallerAddress == Addr(1)   \* the externally owned caller and origin
MainAddress == Addr(2)     \* the account whose code the outermost frame runs
AddressB == Addr(3)        \* a contract of the world state handed to Runner::new
AddressC == Addr(4)        \* another one
AddressD == Addr(5)        \* an address with no account record

\* 0x3635C9ADC5DEA00000, 1000 ether.
InitialCallerBalance == pad_left(<<54, 53, 201, 173, 197, 222, 160, 0, 0>>)

PUSH(bytes) == <<OP_PUSH0 + Len(bytes)>> \o bytes
PUSH1(byte) == PUSH(<<byte>>)

AsmSstore(slot, value) == PUSH1(value) \o PUSH1(slot) \o <<OP_SSTORE>>
AsmSload(slot) == PUSH1(slot) \o <<OP_SLOAD>>
AsmMstore(offset, bytes) == PUSH(bytes) \o PUSH1(offset) \o <<OP_MSTORE>>
AsmLog0(offset, size) == PUSH1(size) \o PUSH1(offset) \o <<OP_LOG0>>
AsmLog2(offset, size, topic1, topic2) ==
    PUSH1(topic2) \o PUSH1(topic1) \o PUSH1(size) \o PUSH1(offset) \o <<OP_LOG2>>
AsmReturn(offset, size) == PUSH1(size) \o PUSH1(offset) \o <<OP_RETURN>>
AsmRevert(offset, size) == PUSH1(size) \o PUSH1(offset) \o <<OP_REVERT>>
AsmSelfdestruct(id) == PUSH1(id) \o <<OP_SELFDESTRUCT>>
AsmCall(id, value, in_off, in_size, out_off, out_size) ==
    PUSH1(out_size) \o PUSH1(out_off) \o PUSH1(in_size) \o PUSH1(in_off)
        \o PUSH1(value) \o PUSH1(id) \o PUSH1(255) \o <<OP_CALL>>
AsmCallNoValue(op, id, in_off, in_size, out_off, out_size) ==
    PUSH1(out_size) \o PUSH1(out_off) \o PUSH1(in_size) \o PUSH1(in_off)
        \o PUSH1(id) \o PUSH1(255) \o <<op>>
AsmCreate(value, init_code) ==
    AsmMstore(0, init_code)
        \o PUSH1(Len(init_code)) \o PUSH1(WordSize - Len(init_code))
        \o PUSH1(value) \o <<OP_CREATE>>
AsmCreate2(value, init_code, salt) ==
    AsmMstore(0, init_code)
        \o PUSH1(salt) \o PUSH1(Len(init_code)) \o PUSH1(WordSize - Len(init_code))
        \o PUSH1(value) \o <<OP_CREATE2>>

\* Constructors: one stores, logs and returns one byte of runtime code, one
\* stores and reverts, one is empty.
InitCodes ==
    { AsmSstore(0, 7) \o AsmLog0(0, 0) \o AsmMstore(0, <<255>>) \o AsmReturn(31, 1),
      AsmSstore(0, 7) \o AsmRevert(0, 0),
      <<>> }

\* PUSH1 0x67 and then a CALL of the externally owned caller, whose code is
\* not found.  Byte 1 is PUSH8: run from there, the eight bytes of the CALL
\* sequence are an immediate and the next opcodes store 7 to slot 0.
CallThenStore ==
    PUSH1(OP_PUSH0 + 8) \o PUSH(<<>>) \o PUSH(<<>>) \o PUSH(<<>>) \o PUSH(<<>>)
        \o PUSH1(1) \o PUSH(<<>>) \o <<OP_CALL>> \o PUSH1(7) \o PUSH(<<>>)
        \o <<OP_SSTORE>>

\* A CREATE with value 5 of a contract whose runtime code is PUSH1 2,
\* SELFDESTRUCT, and then a CALL of the address the CREATE has pushed.
CreateThenCall ==
    PUSH(<<>>) \o PUSH(<<>>) \o PUSH(<<>>) \o PUSH(<<>>) \o PUSH(<<>>)
        \o AsmCreate(5, AsmMstore(0, AsmSelfdestruct(2)) \o AsmReturn(29, 3))
        \o PUSH1(255) \o <<OP_CALL>>

\* Code of AddressC.
ProgramsC ==
    { AsmMstore(0, <<171>>) \o AsmReturn(31, 1),
      AsmSstore(1, 5) \o AsmLog0(0, 0),
      <<OP_INVALID>>,
      AsmSstore(1, 5) \o AsmMstore(0, <<205>>) \o AsmRevert(31, 1),
      AsmCall(3, 0, 0, 0, 0, 0) \o <<OP_STOP>>,
      CallThenStore,
      <<>> }

\* Code of AddressB.
ProgramsB ==
    { AsmSstore(0, 1) \o AsmRevert(0, 0),
      AsmSstore(0, 1) \o AsmLog0(0, 0) \o <<OP_STOP>>,
      AsmCall(4, 0, 0, 0, 0, 1) \o <<OP_STOP>>,
      AsmCall(4, 0, 0, 0, 0, 1) \o <<OP_INVALID>>,
      AsmCallNoValue(OP_STATICCALL, 4, 0, 0, 0, 0) \o AsmSstore(0, 1),
      AsmCallNoValue(OP_DELEGATECALL, 4, 0, 0, 0, 0) \o AsmSload(1),
      AsmCall(1, 0, 0, 0, 0, 0) \o AsmSstore(0, 1),
      AsmCreate(0, AsmSstore(0, 7) \o AsmRevert(0, 0)),
      AsmSelfdestruct(1) \o AsmSstore(0, 1),
      AsmCallNoValue(OP_STATICCALL, 4, 0, 0, 0, 0) \o AsmSelfdestruct(1),
      AsmCallNoValue(OP_STATICCALL, 4, 0, 0, 0, 0) \o AsmLog2(0, 0, 7, 8) }

\* Programs that read the call data: its size, a word of it loaded, its
\* size again; and its size, one byte of it copied to memory, its size again.
AsmCalldataload(offset) == PUSH1(offset) \o <<OP_CALLDATALOAD>>

AsmCalldatacopy(dest_offset, offset, size) ==
    PUSH1(size) \o PUSH1(offset) \o PUSH1(dest_offset) \o <<OP_CALLDATACOPY>>

ProgramsCalldata ==
    { <<OP_CALLDATASIZE>> \o AsmCalldataload(0) \o <<OP_CALLDATASIZE>>,
      <<OP_CALLDATASIZE>> \o AsmCalldatacopy(0, 0, 1) \o <<OP_CALLDATASIZE>>,
      <<OP_CALLDATALOAD>>, <<OP_CALLDATACOPY>> }

\* Programs that log: two records from a memory that holds the window, and
\* one record whose window ends past the memory.
ProgramsLog ==
    { AsmMstore(0, <<17, 34>>) \o AsmLog0(30, 2) \o AsmLog2(30, 2, 7, 8),
      AsmLog2(0, 2 * WordSize, 7, 8),
      PUSH1(0) \o <<OP_LOG2>> }

\* Programs of jumps: a JUMP to dest and a JUMPI to dest under condition
\* cond, each followed by tail, and the programs of test_jump and test_jumpi.
AsmJump(dest) == PUSH1(dest) \o <<OP_JUMP>>

AsmJumpi(dest, cond) == PUSH1(cond) \o PUSH1(dest) \o <<OP_JUMPI>>

JumpTail == <<OP_INVALID, OP_JUMPDEST>> \o PUSH1(OP_JUMPDEST) \o <<OP_STOP>>

\* In AsmJump(dest) \o JumpTail: 4 is the JUMPDEST, 6 the immediate of the
\* PUSH1 (the byte 0x5b), 7 the STOP, 8 the bytecode length, 9 beyond it.
JumpDests == {4, 6, 7, 8, 9}

\* The same places in AsmJumpi(dest, cond) \o JumpTail.
JumpiDests == {6, 8, 9, 10, 11}

ProgramsJump ==
    { AsmJump(dest) \o JumpTail : dest \in JumpDests }
    \cup
    { AsmJumpi(dest, cond) \o JumpTail : dest \in JumpiDests, cond \in {0, 1} }
    \cup
    { AsmJump(4) \o <<OP_INVALID, OP_JUMPDEST>> \o PUSH1(1),
      AsmJumpi(10, 0) \o AsmJumpi(12, 1)
          \o <<OP_JUMPDEST, OP_INVALID, OP_JUMPDEST>> \o PUSH1(1),
      <<OP_JUMP>>, PUSH1(0) \o <<OP_JUMPI>> }

\* Bytecode handed to the outermost interpret.
CallTargets == {1, 3, 4, 5}

ProgramsMain ==
    { AsmSstore(0, 46) \o AsmMstore(0, <<17, 34>>)
          \o AsmCall(id, 0, 30, 2, 0, 1) \o <<OP_RETURNDATASIZE>> \o AsmSload(0)
      : id \in CallTargets }
    \cup
    { AsmSstore(0, 46) \o AsmMstore(0, <<17, 34>>)
          \o AsmCallNoValue(op, id, 30, 2, 0, 1) \o <<OP_RETURNDATASIZE>> \o AsmSload(0)
      : op \in {OP_STATICCALL, OP_DELEGATECALL}, id \in CallTargets }
    \cup
    { AsmCreate(value, init_code) \o <<OP_RETURNDATASIZE>>
      : value \in {0, 5}, init_code \in InitCodes }
    \cup
    { AsmCreate2(0, init_code, 9) \o <<OP_RETURNDATASIZE>> : init_code \in InitCodes }
    \cup
    { AsmCall(4, 0, 0, 0, 0, 0) \o AsmCreate(0, <<>>),
      CreateThenCall,
      PUSH1(46) \o AsmCall(5, 0, 0, 0, 0, 1),
      AsmCall(3, 0, 0, WordSize + 1, 0, 1),
      <<OP_CALLCODE>>, <<>> }
    \cup ProgramsJump
    \cup ProgramsCalldata
    \cup ProgramsLog

\* What the provider may answer to get_code and get_storage_at.
FetchedCodes ==
    { [ok |-> FALSE, value |-> <<>>],
      [ok |-> TRUE, value |-> <<>>],
      [ok |-> TRUE, value |-> AsmMstore(0, <<171>>) \o AsmReturn(31, 1)] }

FetchedWords ==
    { [ok |-> FALSE, value |-> ZeroWord],
      [ok |-> TRUE, value |-> pad_left(<<9>>)] }

\* The values an out-of-bounds read of the heap may return.
JunkBytes == {0, 170}

DebugLevels == {None, Some(3)}

(***************************************************************************)
(* Init: the Runner that Runner::new returns for a caller, an address and  *)
(* a world state that already holds the contracts B and C.                 *)
(***************************************************************************)
\* No method has been called on its own.
NoCall ==
    [op |-> "none", args |-> <<>>, before |-> <<>>, err |-> "None",
     result |-> <<>>, answer |-> <<>>, count |-> 0]

NoSnapshot ==
    [accounts |-> EmptyMap, codes |-> EmptyMap, logs |-> <<>>, static_mode |-> FALSE,
     stack |-> <<>>, memory |-> <<>>, pc |-> 0, bytecode |-> <<>>,
     calldata |-> <<>>, returndata |-> <<>>, caller |-> Addr(0),
     address |-> Addr(0), callvalue |-> ZeroWord, debug_level |-> None,
     call_depth |-> 0]

NoOp ==
    [phase |-> "none", op |-> "none", outcome |-> "none", call_err |-> FALSE,
     pre |-> NoSnapshot, sub_halted |-> "none", sub_returndata |-> <<>>,
     to |-> Addr(0), value |-> ZeroWord, window |-> <<>>,
     out_off |-> 0, out_size |-> 0]

Snapshot ==
    [accounts |-> accounts, codes |-> codes, logs |-> logs,
     static_mode |-> static_mode, stack |-> stack, memory |-> memory, pc |-> pc,
     bytecode |-> bytecode, calldata |-> calldata, returndata |-> returndata,
     caller |-> caller, address |-> address, callvalue |-> callvalue,
     debug_level |-> debug_level, call_depth |-> call_depth]

WithContract(state, addr, code) ==
    LET created == init_account(state.accounts, addr).accounts
        put == EvmState_put_code_at(created, state.codes, FALSE, addr, code)
    IN [accounts |-> put.accounts, codes |-> put.codes]

Runner_new(state, caller_, origin_, address_) ==
    LET a1 == init_account(state.accounts, address_).accounts
        a2 == init_account(a1, caller_).accounts
        a3 == init_account(a2, origin_).accounts
    IN [state EXCEPT !.accounts =
            [a3 EXCEPT ![caller_].balance = InitialCallerBalance]]

Init ==
    \E codeB \in ProgramsB, codeC \in ProgramsC, fork \in BOOLEAN :
        LET given == WithContract(
                         WithContract([accounts |-> EmptyMap, codes |-> EmptyMap],
                                      AddressB, codeB),
                         AddressC, codeC)
            new == Runner_new(given, CallerAddress, CallerAddress, MainAddress)
        IN /\ pc = 0
           /\ bytecode = <<>>
           /\ debug_level = None
           /\ call_depth = 0
           /\ origin = CallerAddress
           /\ caller = CallerAddress
           /\ callvalue = ZeroWord
           /\ address = MainAddress
           /\ memory = <<>>
           /\ calldata = <<>>
           /\ returndata = <<>>
           /\ stack = <<>>
           /\ accounts = new.accounts
           /\ codes = new.codes
           /\ logs = <<>>
           /\ static_mode = FALSE
           /\ provider = fork
           /\ interpreting = FALSE
           /\ error = "None"
           /\ callStack = <<>>
           /\ halted = "none"
           /\ lastOp = NoOp
           /\ derived = {}
           /\ applied = NoCall

(***************************************************************************)
(* The dispatch loop (Runner::interpret, Runner::interpret_op_code).       *)
(***************************************************************************)
\* The opcode bytes interpret_op_code has a match arm for; every other byte
\* goes to the default arm, op_codes::system::invalid.
DispatchedOpcodes ==
    (0..10) \cup (16..25) \cup {27, 28, 32} \cup (48..72) \cup (80..82)
        \cup {84, 85, 86, 87, 88, 89, 90, 91} \cup (95..164)
        \cup {240, 241, 242, 243, 244, 245, 250, 253, 255}

\* The loop condition of interpret, for a frame whose interpret has not
\* returned.
Running == interpreting /\ error = "None" /\ pc < Len(bytecode)

opcode == bytecode[pc + 1]

\* A handler that returns Err: the loop breaks with that error; the words the
\* handler popped before failing stay popped.
Fail_Advancing(err, stk) ==
    /\ error' = err
    /\ stack' = stk
    /\ lastOp' = NoOp
    /\ pc' = pc + 1
    /\ UNCHANGED <<bytecode, debug_level, call_depth, origin, caller,
                   callvalue, address, memory, calldata, returndata, accounts,
                   codes, logs, static_mode, provider, interpreting, callStack,
                   halted>>

Fail(err, stk) ==
    /\ error' = err
    /\ stack' = stk
    /\ lastOp' = NoOp
    /\ UNCHANGED <<pc, bytecode, debug_level, call_depth, origin, caller,
                   callvalue, address, memory, calldata, returndata, accounts,
                   codes, logs, static_mode, provider, interpreting, callStack,
                   halted>>

\* The outermost call of interpret, with initial_interpretation = true.
interpret ==
    /\ UNCHANGED <<derived, applied>>
    /\ ~interpreting
    /\ \E code \in ProgramsMain, debug \in DebugLevels :
          LET put == EvmState_put_code_at(accounts, codes, static_mode, address, code)
          IN /\ interpreting' = TRUE
             /\ bytecode' = code
             /\ accounts' = put.accounts
             /\ codes' = put.codes
             /\ debug_level' = IF put.err = "None" THEN debug ELSE debug_level
             /\ error' = IF put.err # "None" THEN put.err
                         ELSE IF code = <<>> THEN "EmptyByteCode" ELSE "None"
    /\ lastOp' = NoOp
    /\ UNCHANGED <<pc, call_depth, origin, caller, callvalue, address, memory,
                   calldata, returndata, stack, logs, static_mode, provider,
                   callStack, halted>>

(***************************************************************************)
(* Opcode handlers that stay in the frame.                                 *)
(***************************************************************************)
\* op_codes::stack::push::push(runner, data_len), PUSH0..PUSH32.
push ==
    /\ UNCHANGED <<derived, applied>>
    /\ Running
    /\ opcode \in OP_PUSH0..(OP_PUSH0 + WordSize)
    /\ LET data_len == opcode - OP_PUSH0
       IN IF pc + 1 + data_len > Len(bytecode)
          THEN Fail("OutOfBoundsByteCode", stack)
          ELSE IF Stack_push_fails(stack)
          THEN Fail("StackTooDeep", stack)
          ELSE /\ stack' = Stack_push(stack,
                                pad_left(SubSeq(bytecode, pc + 2, pc + 1 + data_len)))
               /\ pc' = pc + 1 + data_len
               /\ lastOp' = NoOp
               /\ UNCHANGED <<bytecode, debug_level, call_depth, origin, caller,
                              callvalue, address, memory, calldata, returndata,
                              accounts, codes, logs, static_mode, provider,
                              interpreting, error, callStack, halted>>

\* op_codes::memory::mstore
mstore ==
    /\ UNCHANGED <<derived, applied>>
    /\ Running
    /\ opcode = OP_MSTORE
    /\ IF Stack_pop_fails(stack, 2)
       THEN Fail("StackTooSmall", Stack_popped(stack, 2))
       ELSE /\ fits_usize(Stack_nth(stack, 1))
            /\ memory' = Memory_mstore(memory, as_usize(Stack_nth(stack, 1)),
                                       Stack_nth(stack, 2))
            /\ stack' = Stack_popped(stack, 2)
            /\ pc' = pc + 1
            /\ lastOp' = NoOp
            /\ UNCHANGED <<bytecode, debug_level, call_depth, origin, caller,
                           callvalue, address, calldata, returndata, accounts,
                           codes, logs, static_mode, provider, interpreting,
                           error, callStack, halted>>

\* op_codes::storage::sload
sload ==
    /\ UNCHANGED <<derived, applied>>
    /\ Running
    /\ opcode = OP_SLOAD
    /\ IF Stack_pop_fails(stack, 1)
       THEN Fail("StackTooSmall", Stack_popped(stack, 1))
       ELSE \E fetched \in FetchedWords :
              LET loaded == EvmState_sload(accounts, provider, address,
                                           Stack_nth(stack, 1), fetched)
              IN /\ accounts' = loaded.accounts
                 /\ stack' = Stack_push(Stack_popped(stack, 1), loaded.value)
                 /\ pc' = pc + 1
                 /\ lastOp' = NoOp
                 /\ UNCHANGED <<bytecode, debug_level, call_depth, origin, caller,
                                callvalue, address, memory, calldata, returndata,
                                codes, logs, static_mode, provider, interpreting,
                                error, callStack, halted>>

\* op_codes::storage::sstore
sstore ==
    /\ UNCHANGED <<derived, applied>>
    /\ Running
    /\ opcode = OP_SSTORE
    /\ IF Stack_pop_fails(stack, 2)
       THEN Fail("StackTooSmall", Stack_popped(stack, 2))
       ELSE LET stored == EvmState_sstore(accounts, static_mode, address,
                                          Stack_nth(stack, 1), Stack_nth(stack, 2))
            IN IF stored.err # "None"
               THEN Fail(stored.err, Stack_popped(stack, 2))
               ELSE /\ accounts' = stored.accounts
                    /\ stack' = Stack_popped(stack, 2)
                    /\ pc' = pc + 1
                    /\ lastOp' = NoOp
                    /\ UNCHANGED <<bytecode, debug_level, call_depth, origin,
                                   caller, callvalue, address, memory, calldata,
                                   returndata, codes, logs, static_mode, provider,
                                   interpreting, error, callStack, halted>>

\* op_codes::environment::returndatasize
returndatasize ==
    /\ UNCHANGED <<derived, applied>>
    /\ Running
    /\ opcode = OP_RETURNDATASIZE
    /\ IF Stack_push_fails(stack)
       THEN Fail("StackTooDeep", stack)
       ELSE /\ stack' = Stack_push(stack, u64_to_u256_array(Len(returndata)))
            /\ pc' = pc + 1
            /\ lastOp' = NoOp
            /\ UNCHANGED <<bytecode, debug_level, call_depth, origin, caller,
                           callvalue, address, memory, calldata, returndata,
                           accounts, codes, logs, static_mode, provider,
                           interpreting, error, callStack, halted>>

\* op_codes::environment::calldataload.  runner.calldata is a Memory, and
\* Memory::read extends the heap it reads from.
calldataload ==
    /\ UNCHANGED <<derived, applied>>
    /\ Running
    /\ opcode = OP_CALLDATALOAD
    /\ IF Stack_pop_fails(stack, 1)
       THEN Fail("StackTooSmall", Stack_popped(stack, 1))
       ELSE LET offset == as_usize(Stack_nth(stack, 1))
            IN /\ fits_usize(Stack_nth(stack, 1))
               /\ ~Memory_read_panics(calldata, offset, 32)
               /\ calldata' = Memory_read_heap(calldata, offset, 32)
               /\ stack' = Stack_push(Stack_popped(stack, 1),
                                      Memory_read(calldata, offset, 32, 0))
               /\ pc' = pc + 1
               /\ lastOp' = NoOp
               /\ UNCHANGED <<bytecode, debug_level, call_depth, origin, caller,
                              callvalue, address, memory, returndata, accounts,
                              codes, logs, static_mode, provider, interpreting,
                              error, callStack, halted>>

\* op_codes::environment::calldatasize
calldatasize ==
    /\ UNCHANGED <<derived, applied>>
    /\ Running
    /\ opcode = OP_CALLDATASIZE
    /\ IF Stack_push_fails(stack)
       THEN Fail("StackTooDeep", stack)
       ELSE /\ stack' = Stack_push(stack, u64_to_u256_array(Len(calldata)))
            /\ pc' = pc + 1
            /\ lastOp' = NoOp
            /\ UNCHANGED <<bytecode, debug_level, call_depth, origin, caller,
                           callvalue, address, memory, calldata, returndata,
                           accounts, codes, logs, static_mode, provider,
                           interpreting, error, callStack, halted>>

\* op_codes::environment::calldatacopy
calldatacopy ==
    /\ UNCHANGED <<derived, applied>>
    /\ Running
    /\ opcode = OP_CALLDATACOPY
    /\ IF Stack_pop_fails(stack, 3)
       THEN Fail("StackTooSmall", Stack_popped(stack, 3))
       ELSE LET dest_offset == as_usize(Stack_nth(stack, 1))
                offset == as_usize(Stack_nth(stack, 2))
                size == as_usize(Stack_nth(stack, 3))
            IN /\ \A k \in 1..3 : fits_usize(Stack_nth(stack, k))
               /\ ~Memory_read_panics(calldata, offset, size)
               /\ calldata' = Memory_read_heap(calldata, offset, size)
               /\ \E junk \in IF offset + size
                                    > Len(Memory_read_heap(calldata, offset, size))
                                THEN JunkBytes ELSE {0} :
                     memory' = Memory_write(memory, dest_offset,
                                   Memory_read(calldata, offset, size, junk))
               /\ stack' = Stack_popped(stack, 3)
               /\ pc' = pc + 1
               /\ lastOp' = NoOp
               /\ UNCHANGED <<bytecode, debug_level, call_depth, origin, caller,
                              callvalue, address, returndata, accounts, codes,
                              logs, static_mode, provider, interpreting, error,
                              callStack, halted>>

\* op_codes::log::log0
log0 ==
    /\ UNCHANGED <<derived, applied>>
    /\ Running
    /\ opcode = OP_LOG0
    /\ IF static_mode
       THEN Fail("StaticCallStateChanged", stack)
       ELSE IF Stack_pop_fails(stack, 2)
       THEN Fail("StackTooSmall", Stack_popped(stack, 2))
       ELSE LET offset == as_usize(Stack_nth(stack, 1))
                size == as_usize(Stack_nth(stack, 2))
            IN /\ fits_usize(Stack_nth(stack, 1)) /\ fits_usize(Stack_nth(stack, 2))
               /\ ~Memory_read_panics(memory, offset, size)
               /\ \E junk \in JunkBytes :
                     logs' = Append(logs,
                                 [address |-> address, topics |-> <<>>,
                                  data |-> Memory_read(memory, offset, size, junk)])
               /\ memory' = Memory_read_heap(memory, offset, size)
               /\ stack' = Stack_popped(stack, 2)
               /\ pc' = pc + 1
               /\ lastOp' = NoOp
               /\ UNCHANGED <<bytecode, debug_level, call_depth, origin, caller,
                              callvalue, address, calldata, returndata, accounts,
                              codes, static_mode, provider, interpreting, error,
                              callStack, halted>>

\* op_codes::log::log2
log2 ==
    /\ UNCHANGED <<derived, applied>>
    /\ Running
    /\ opcode = OP_LOG2
    /\ IF static_mode
       THEN Fail("StaticCallStateChanged", stack)
       ELSE IF Stack_pop_fails(stack, 4)
       THEN Fail("StackTooSmall", Stack_popped(stack, 4))
       ELSE LET offset == as_usize(Stack_nth(stack, 1))
                size == as_usize(Stack_nth(stack, 2))
                topic1 == Stack_nth(stack, 3)
                topic2 == Stack_nth(stack, 4)
            IN /\ fits_usize(Stack_nth(stack, 1)) /\ fits_usize(Stack_nth(stack, 2))
               /\ ~Memory_read_panics(memory, offset, size)
               /\ \E junk \in IF offset + size
                                    > Len(Memory_read_heap(memory, offset, size))
                                THEN JunkBytes ELSE {0} :
                     logs' = Append(logs,
                                 [address |-> address, topics |-> <<topic1, topic2>>,
                                  data |-> Memory_read(memory, offset, size, junk)])
               /\ memory' = Memory_read_heap(memory, offset, size)
               /\ stack' = Stack_popped(stack, 4)
               /\ pc' = pc + 1
               /\ lastOp' = NoOp
               /\ UNCHANGED <<bytecode, debug_level, call_depth, origin, caller,
                              callvalue, address, calldata, returndata, accounts,
                              codes, static_mode, provider, interpreting, error,
                              callStack, halted>>

\* op_codes::flow::stop
stop ==
    /\ UNCHANGED <<derived, applied>>
    /\ Running
    /\ opcode = OP_STOP
    /\ pc' = Len(bytecode)
    /\ halted' = "stop"
    /\ lastOp' = NoOp
    /\ UNCHANGED <<bytecode, debug_level, call_depth, origin, caller, callvalue,
                   address, memory, calldata, returndata, stack, accounts, codes,
                   logs, static_mode, provider, interpreting, error, callStack>>

\* op_codes::flow::jump
jump ==
    /\ UNCHANGED <<derived, applied>>
    /\ Running
    /\ opcode = OP_JUMP
    /\ IF Stack_pop_fails(stack, 1)
       THEN Fail("StackTooSmall", Stack_popped(stack, 1))
       ELSE LET jump_address == Stack_nth(stack, 1)
            IN /\ fits_usize(jump_address)
               /\ IF as_usize(jump_address) > Len(bytecode)
                  THEN Fail("OutOfBoundsByteCode", Stack_popped(stack, 1))
                  ELSE /\ pc' = as_usize(jump_address)
                       /\ stack' = Stack_popped(stack, 1)
                       /\ lastOp' = NoOp
                       /\ UNCHANGED <<bytecode, debug_level, call_depth, origin,
                                      caller, callvalue, address, memory, calldata,
                                      returndata, accounts, codes, logs,
                                      static_mode, provider, interpreting, error,
                                      callStack, halted>>

\* op_codes::flow::jumpi
jumpi ==
    /\ UNCHANGED <<derived, applied>>
    /\ Running
    /\ opcode = OP_JUMPI
    /\ IF Stack_pop_fails(stack, 2)
       THEN Fail("StackTooSmall", Stack_popped(stack, 2))
       ELSE LET jump_address == Stack_nth(stack, 1)
                condition == Stack_nth(stack, 2)
            IN /\ fits_usize(jump_address)
               /\ IF as_usize(jump_address) > Len(bytecode)
                  THEN Fail("OutOfBoundsByteCode", Stack_popped(stack, 2))
                  ELSE /\ pc' = IF condition # ZeroWord
                                THEN as_usize(jump_address)
                                ELSE pc + 1
                       /\ stack' = Stack_popped(stack, 2)
                       /\ lastOp' = NoOp
                       /\ UNCHANGED <<bytecode, debug_level, call_depth, origin,
                                      caller, callvalue, address, memory, calldata,
                                      returndata, accounts, codes, logs,
                                      static_mode, provider, interpreting, error,
                                      callStack, halted>>

\* op_codes::flow::jumpdest
jumpdest ==
    /\ UNCHANGED <<derived, applied>>
    /\ Running
    /\ opcode = OP_JUMPDEST
    /\ pc' = pc + 1
    /\ lastOp' = NoOp
    /\ UNCHANGED <<bytecode, debug_level, call_depth, origin, caller, callvalue,
                   address, memory, calldata, returndata, stack, accounts, codes,
                   logs, static_mode, provider, interpreting, error, callStack,
                   halted>>

\* op_codes::flow::revert
revert ==
    /\ UNCHANGED <<derived, applied>>
    /\ Running
    /\ opcode = OP_REVERT
    /\ IF Stack_pop_fails(stack, 2)
       THEN Fail("StackTooSmall", Stack_popped(stack, 2))
       ELSE LET offset == as_usize(Stack_nth(stack, 1))
                size == as_usize(Stack_nth(stack, 2))
            IN /\ fits_usize(Stack_nth(stack, 1)) /\ fits_usize(Stack_nth(stack, 2))
               /\ ~Memory_read_panics(memory, offset, size)
               /\ \E junk \in JunkBytes :
                     LET revert_data == Memory_read(memory, offset, size, junk)
                     IN /\ returndata' = revert_data
                        /\ error' = IF Len(revert_data) > 0 THEN "Revert"
                                    ELSE "RevertWithoutData"
               /\ memory' = Memory_read_heap(memory, offset, size)
               /\ stack' = Stack_popped(stack, 2)
               /\ halted' = "revert"
               /\ lastOp' = NoOp
               /\ UNCHANGED <<pc, bytecode, debug_level, call_depth, origin, caller,
                              callvalue, address, calldata, accounts, codes, logs,
                              static_mode, provider, interpreting, callStack>>

\* op_codes::system::return_
return_ ==
    /\ UNCHANGED <<derived, applied>>
    /\ Running
    /\ opcode = OP_RETURN
    /\ IF Stack_pop_fails(stack, 2)
       THEN Fail("StackTooSmall", Stack_popped(stack, 2))
       ELSE LET offset == as_usize(Stack_nth(stack, 1))
                size == as_usize(Stack_nth(stack, 2))
            IN /\ fits_usize(Stack_nth(stack, 1)) /\ fits_usize(Stack_nth(stack, 2))
               /\ ~Memory_read_panics(memory, offset, size)
               /\ \E junk \in JunkBytes :
                     returndata' = Memory_read(memory, offset, size, junk)
               /\ memory' = Memory_read_heap(memory, offset, size)
               /\ stack' = Stack_popped(stack, 2)
               /\ pc' = Len(bytecode)
               /\ halted' = "return"
               /\ lastOp' = NoOp
               /\ UNCHANGED <<bytecode, debug_level, call_depth, origin, caller,
                              callvalue, address, calldata, accounts, codes, logs,
                              static_mode, provider, interpreting, error, callStack>>

\* op_codes::system::invalid, the default arm of the dispatch.
invalid ==
    /\ UNCHANGED <<derived, applied>>
    /\ Running
    /\ opcode \notin DispatchedOpcodes
    /\ Fail("InvalidOpcode", stack)

\* op_codes::system::callcode
callcode ==
    /\ UNCHANGED <<derived, applied>>
    /\ Running
    /\ opcode = OP_CALLCODE
    /\ Fail("NotImplemented", stack)

\* op_codes::system::selfdestruct
selfdestruct ==
    /\ UNCHANGED <<derived, applied>>
    /\ Running
    /\ opcode = OP_SELFDESTRUCT
    /\ IF Stack_pop_fails(stack, 1)
       THEN Fail("StackTooSmall", Stack_popped(stack, 1))
       ELSE LET contract_balance == get_balance(accounts, address)
                moved == EvmState_transfer(accounts, static_mode, address,
                             bytes32_to_address(Stack_nth(stack, 1)),
                             contract_balance.balance)
            IN IF contract_balance.err # "None"
               THEN Fail(contract_balance.err, Stack_popped(stack, 1))
               ELSE IF moved.err # "None"
               THEN Fail(moved.err, Stack_popped(stack, 1))
               ELSE /\ accounts' = delete_account(moved.accounts, address)
                    /\ stack' = Stack_popped(stack, 1)
                    /\ pc' = pc + 1
                    /\ lastOp' = NoOp
                    /\ UNCHANGED <<bytecode, debug_level, call_depth, origin,
                                   caller, callvalue, address, memory, calldata,
                                   returndata, codes, logs, static_mode, provider,
                                   interpreting, error, callStack, halted>>

(***************************************************************************)
(* The call protocol: Runner::call and the handlers that call it.          *)
(*                                                                         *)
(* A handler that calls Runner::call is two steps of the model: the first  *)
(* runs the handler up to the point where Runner::call calls interpret on  *)
(* the sub-frame, the second (Runner_call_return) runs from the return of  *)
(* that interpret to the end of the handler.  The opcodes of the sub-frame *)
(* are the steps in between.  When get_code_at fails, Runner::call         *)
(* returns before interpret and the first step runs the handler to its end.*)
(***************************************************************************)
SubDebugLevel(dbg) ==
    IF dbg # None /\ dbg[1] > 1 THEN Some(dbg[1] - 1) ELSE Some(0)

Outcome(err) ==
    IF err = "None" THEN "ok"
    ELSE IF err \in {"Revert", "RevertWithoutData"} THEN "revert"
    ELSE "error"

\* The return data cut or zero-padded to returndata_size.
FitReturnData(data, size) ==
    [i \in 1..size |-> IF i <= Len(data) THEN data[i] ELSE 0]

\* system::call and system::delegatecall after Runner::call has returned:
\* st is the Runner as Runner::call left it, loc the handler's locals.
call_tail(op, loc, call_err, st) ==
    /\ debug_level' = st.debug_level
    /\ accounts' = st.accounts
    /\ codes' = st.codes
    /\ static_mode' = IF op = "staticcall" THEN FALSE ELSE st.static_mode
    /\ IF Stack_push_fails(st.stack)
       THEN /\ error' = "StackTooDeep"
            /\ stack' = st.stack
            /\ memory' = st.memory
            /\ pc' = st.pc
       ELSE /\ error' = "None"
            /\ stack' = Stack_push(st.stack, pad_left(<<IF call_err THEN 0 ELSE 1>>))
            /\ memory' = Memory_write(st.memory, loc.returndata_offset,
                             FitReturnData(st.returndata, loc.returndata_size))
            /\ pc' = st.pc + 1

\* system::create and system::create2 after Runner::call has returned.
create_tail(op, loc, call_err, st) ==
    LET put == EvmState_put_code_at(st.accounts, st.codes, st.static_mode,
                                    loc.contract_address, st.returndata)
        moved == EvmState_transfer(put.accounts, st.static_mode, st.caller,
                                   loc.contract_address, loc.value)
    IN /\ debug_level' = loc.temp_debug_level
       /\ static_mode' = st.static_mode
       /\ memory' = st.memory
       /\ IF Stack_push_fails(st.stack)
          THEN /\ error' = "StackTooDeep"
               /\ stack' = st.stack
               /\ accounts' = st.accounts
               /\ codes' = st.codes
               /\ pc' = st.pc
          ELSE /\ stack' = Stack_push(st.stack,
                               IF call_err THEN pad_left(<<0>>)
                               ELSE pad_left(loc.contract_address))
               /\ codes' = put.codes
               /\ IF put.err # "None"
                  THEN /\ error' = put.err
                       /\ accounts' = put.accounts
                       /\ pc' = st.pc
                  ELSE IF moved.err # "None"
                  THEN /\ error' = moved.err
                       /\ accounts' = put.accounts
                       /\ pc' = st.pc
                  ELSE /\ error' = "None"
                       /\ accounts' = moved.accounts
                       /\ pc' = st.pc + 1

handler_tail(op, loc, call_err, st) ==
    IF op \in {"create", "create2"}
    THEN create_tail(op, loc, call_err, st)
    ELSE call_tail(op, loc, call_err, st)

\* Runner::call(to, value, calldata, _gas, delegate), called by the handler of
\* op with the Runner in state st (its stack, memory, debug level and world
\* state as the handler has left them) and the handler's locals loc.
Runner_call(op, loc, to, value, data, delegate, st, fetched) ==
    LET got == EvmState_get_code_at(st.accounts, st.codes, provider, to, fetched)
        sub_caller == IF delegate THEN caller ELSE address
        sub_debug == SubDebugLevel(st.debug_level)
        rec == [op |-> op, delegate |-> delegate,
                initial_caller |-> caller, initial_callvalue |-> callvalue,
                initial_address |-> address, initial_calldata |-> calldata,
                initial_returndata |-> returndata, initial_memory |-> st.memory,
                initial_stack |-> st.stack, initial_pc |-> pc,
                initial_debug_level |-> st.debug_level,
                initial_bytecode |-> bytecode,
                returndata_offset |-> loc.returndata_offset,
                returndata_size |-> loc.returndata_size,
                contract_address |-> loc.contract_address,
                value |-> loc.value,
                temp_debug_level |-> loc.temp_debug_level,
                pre |-> Snapshot, to |-> to, window |-> data]
        seen == [phase |-> "entered", op |-> op, outcome |-> "none",
                 call_err |-> FALSE, pre |-> Snapshot, sub_halted |-> "none",
                 sub_returndata |-> <<>>, to |-> to, value |-> value,
                 window |-> data, out_off |-> loc.returndata_offset,
                 out_size |-> loc.returndata_size]
    IN /\ caller' = sub_caller
       /\ callvalue' = IF delegate THEN callvalue ELSE value
       /\ address' = IF delegate THEN address ELSE to
       /\ call_depth' = call_depth + 1
       /\ calldata' = data
       /\ returndata' = <<>>
       /\ halted' = "none"
       /\ UNCHANGED <<origin, provider, interpreting, logs>>
       /\ IF got.err # "None"
          THEN \* get_code_at(to)? returns from Runner::call at once
               /\ UNCHANGED <<bytecode, callStack>>
               /\ lastOp' = [seen EXCEPT !.phase = "completed",
                                         !.outcome = "nocode", !.call_err = TRUE]
               /\ handler_tail(op, loc, TRUE,
                      [stack |-> <<>>, memory |-> <<>>, pc |-> 0,
                       returndata |-> <<>>, debug_level |-> sub_debug,
                       accounts |-> got.accounts, codes |-> got.codes,
                       static_mode |-> st.static_mode, caller |-> sub_caller])
          ELSE \* interpret(code, self.debug_level, false)
               /\ bytecode' = got.code
               /\ accounts' = got.accounts
               /\ codes' = got.codes
               /\ static_mode' = st.static_mode
               /\ memory' = <<>>
               /\ stack' = <<>>
               /\ pc' = 0
               /\ debug_level' = sub_debug
               /\ error' = IF got.code = <<>> THEN "EmptyByteCode" ELSE "None"
               /\ callStack' = Append(callStack, rec)
               /\ lastOp' = seen

\* Runner::call from the return of interpret on the sub-frame, and then the
\* rest of the handler that called it.
Runner_call_return ==
    /\ UNCHANGED <<derived, applied>>
    /\ interpreting
    /\ callStack # <<>>
    /\ error # "None" \/ pc >= Len(bytecode)
    /\ LET rec == callStack[Len(callStack)]
           return_data == returndata
           restored_caller == IF rec.delegate THEN caller ELSE rec.initial_caller
           restored_address == IF rec.delegate THEN address ELSE rec.initial_address
           incremented == increment_nonce(accounts, restored_address)
           call_err == error # "None" \/ incremented.err # "None"
       IN /\ caller' = restored_caller
          /\ callvalue' = IF rec.delegate THEN callvalue ELSE rec.initial_callvalue
          /\ address' = restored_address
          /\ calldata' = rec.initial_calldata
          /\ bytecode' = rec.initial_bytecode
          /\ call_depth' = call_depth - 1
          /\ returndata' = return_data
          /\ callStack' = SubSeq(callStack, 1, Len(callStack) - 1)
          /\ halted' = "none"
          /\ lastOp' = [phase |-> "completed", op |-> rec.op,
                        outcome |-> Outcome(error), call_err |-> call_err,
                        pre |-> rec.pre, sub_halted |-> halted,
                        sub_returndata |-> return_data, to |-> rec.to,
                        value |-> rec.value, window |-> rec.window,
                        out_off |-> rec.returndata_offset,
                        out_size |-> rec.returndata_size]
          /\ handler_tail(rec.op, rec, call_err,
                 [stack |-> rec.initial_stack, memory |-> rec.initial_memory,
                  pc |-> rec.initial_pc, returndata |-> return_data,
                  debug_level |-> rec.initial_debug_level,
                  accounts |-> incremented.accounts, codes |-> codes,
                  static_mode |-> static_mode, caller |-> restored_caller])
          /\ UNCHANGED <<origin, provider, interpreting, logs>>

\* A handler of the CALL family failing before Runner::call.
FailCall(op, err, stk) ==
    /\ error' = err
    /\ stack' = stk
    /\ static_mode' = IF op = "staticcall" THEN FALSE ELSE static_mode
    /\ lastOp' = NoOp
    /\ UNCHANGED <<pc, bytecode, debug_level, call_depth, origin, caller,
                   callvalue, address, memory, calldata, returndata, accounts,
                   codes, logs, provider, interpreting, callStack, halted>>

\* system::call(runner, bypass_static), the body shared by CALL and STATICCALL,
\* and system::delegatecall, which differs in the operands and the delegate
\* flag: nargs words are popped, the third being the value for CALL only.
call_family(op, nargs, entered_static) ==
    IF Stack_pop_fails(stack, nargs)
    THEN FailCall(op, "StackTooSmall", Stack_popped(stack, nargs))
    ELSE LET gas == Stack_nth(stack, 1)
             to == Stack_nth(stack, 2)
             value == IF op = "call" THEN Stack_nth(stack, 3) ELSE ZeroWord
             calldata_offset == Stack_nth(stack, nargs - 3)
             calldata_size == Stack_nth(stack, nargs - 2)
             returndata_offset == Stack_nth(stack, nargs - 1)
             returndata_size == Stack_nth(stack, nargs)
         IN /\ call_depth < MaxDepth
            /\ \A w \in {gas, calldata_offset, calldata_size,
                         returndata_offset, returndata_size} : fits_usize(w)
            /\ ~Memory_read_panics(memory, as_usize(calldata_offset),
                                   as_usize(calldata_size))
            /\ \E junk \in JunkBytes, fetched \in FetchedCodes :
                  Runner_call(op,
                      [returndata_offset |-> as_usize(returndata_offset),
                       returndata_size |-> as_usize(returndata_size),
                       contract_address |-> Addr(0), value |-> value,
                       temp_debug_level |-> None],
                      bytes32_to_address(to), value,
                      Memory_read(memory, as_usize(calldata_offset),
                                  as_usize(calldata_size), junk),
                      op = "delegatecall",
                      [stack |-> Stack_popped(stack, nargs),
                       memory |-> Memory_read_heap(memory,
                                      as_usize(calldata_offset),
                                      as_usize(calldata_size)),
                       debug_level |-> debug_level,
                       accounts |-> accounts, codes |-> codes,
                       static_mode |-> entered_static],
                      fetched)

\* op_codes::system::call(runner, false)
call ==
    /\ UNCHANGED <<derived, applied>>
    /\ Running
    /\ opcode = OP_CALL
    /\ IF static_mode
       THEN Fail("StaticCallStateChanged", stack)
       ELSE call_family("call", 7, static_mode)

\* op_codes::system::staticcall: static_mode = true; call(runner, true);
\* static_mode = false.
staticcall ==
    /\ UNCHANGED <<derived, applied>>
    /\ Running
    /\ opcode = OP_STATICCALL
    /\ call_family("staticcall", 6, TRUE)

\* op_codes::system::delegatecall
delegatecall ==
    /\ UNCHANGED <<derived, applied>>
    /\ Running
    /\ opcode = OP_DELEGATECALL
    /\ call_family("delegatecall", 6, static_mode)

\* The address derivations of CREATE and CREATE2.
create_address(caller_, nonce) ==
    keccak256_low20(<<214, 148>> \o caller_ \o strip_zero_padding(nonce))

create2_address(caller_, salt, init_code) ==
    keccak256_low20(<<255>> \o caller_ \o salt \o keccak256(init_code))

\* A CREATE-family handler failing before Runner::call; accts and cds are the
\* maps as the handler has left them.
FailCreate(err, stk, mem, accts, cds) ==
    /\ error' = err
    /\ stack' = stk
    /\ memory' = mem
    /\ accounts' = accts
    /\ codes' = cds
    /\ lastOp' = NoOp
    /\ UNCHANGED <<pc, bytecode, debug_level, call_depth, origin, caller,
                   callvalue, address, calldata, returndata, logs, static_mode,
                   provider, interpreting, callStack, halted>>

\* system::create and system::create2 from the derived address on.
create_family(op, nargs, contract_address, value, init_code, mem) ==
    LET created == init_account(accounts, contract_address)
        put == EvmState_put_code_at(created.accounts, codes, static_mode,
                                    contract_address, init_code)
        stk == Stack_popped(stack, nargs)
    IN IF created.err # "None"
       THEN FailCreate(created.err, stk, mem, created.accounts, codes)
       ELSE IF put.err # "None"
       THEN FailCreate(put.err, stk, mem, put.accounts, put.codes)
       ELSE /\ call_depth < MaxDepth
            /\ \E fetched \in FetchedCodes :
                  Runner_call(op,
                      [returndata_offset |-> 0, returndata_size |-> 0,
                       contract_address |-> contract_address, value |-> value,
                       temp_debug_level |-> debug_level],
                      contract_address, value, <<>>, FALSE,
                      [stack |-> stk, memory |-> mem,
                       debug_level |-> IF op = "create" THEN Some(0) ELSE Some(2),
                       accounts |-> put.accounts, codes |-> put.codes,
                       static_mode |-> static_mode],
                      fetched)

\* What a CREATE executed now derives its address from, and the address.
Derivation ==
    [caller |-> caller, caller_nonce |-> get_nonce(accounts, caller),
     address |-> address, address_nonce |-> get_nonce(accounts, address),
     contract_address |->
         create_address(caller, get_nonce(accounts, address).nonce)]

\* op_codes::system::create
create ==
    /\ UNCHANGED applied
    /\ Running
    /\ opcode = OP_CREATE
    /\ derived' = IF Stack_pop_fails(stack, 3)
                     \/ get_nonce(accounts, address).err # "None"
                  THEN derived
                  ELSE derived \cup {Derivation}
    /\ IF Stack_pop_fails(stack, 3)
       THEN Fail("StackTooSmall", Stack_popped(stack, 3))
       ELSE LET value == Stack_nth(stack, 1)
                offset == Stack_nth(stack, 2)
                size == Stack_nth(stack, 3)
                nonce == get_nonce(accounts, address)
                mem == Memory_read_heap(memory, as_usize(offset), as_usize(size))
            IN /\ fits_usize(offset) /\ fits_usize(size)
               /\ ~Memory_read_panics(memory, as_usize(offset), as_usize(size))
               /\ IF nonce.err # "None"
                  THEN FailCreate(nonce.err, Stack_popped(stack, 3), mem,
                                  accounts, codes)
                  ELSE \E junk \in JunkBytes :
                          create_family("create", 3,
                              create_address(caller, nonce.nonce), value,
                              Memory_read(memory, as_usize(offset),
                                          as_usize(size), junk),
                              mem)

\* op_codes::system::create2
create2 ==
    /\ UNCHANGED <<derived, applied>>
    /\ Running
    /\ opcode = OP_CREATE2
    /\ IF Stack_pop_fails(stack, 4)
       THEN Fail("StackTooSmall", Stack_popped(stack, 4))
       ELSE LET value == Stack_nth(stack, 1)
                offset == Stack_nth(stack, 2)
                size == Stack_nth(stack, 3)
                salt == Stack_nth(stack, 4)
                mem == Memory_read_heap(memory, as_usize(offset), as_usize(size))
            IN /\ fits_usize(offset) /\ fits_usize(size)
               /\ ~Memory_read_panics(memory, as_usize(offset), as_usize(size))
               /\ \E junk \in JunkBytes :
                     LET init_code == Memory_read(memory, as_usize(offset),
                                                  as_usize(size), junk)
                     IN create_family("create2", 4,
                            create2_address(caller, salt, init_code), value,
                            init_code, mem)

(***************************************************************************)
(* The specification.                                                      *)
(***************************************************************************)
Next ==
    \/ interpret
    \/ push
    \/ mstore
    \/ sload
    \/ sstore
    \/ returndatasize
    \/ calldataload
    \/ calldatasize
    \/ calldatacopy
    \/ log0
    \/ log2
    \/ stop
    \/ jump
    \/ jumpi
    \/ jumpdest
    \/ revert
    \/ return_
    \/ invalid
    \/ callcode
    \/ selfdestruct
    \/ call
    \/ staticcall
    \/ delegatecall
    \/ create
    \/ create2
    \/ Runner_call_return

Spec == Init /\ [][Next]_vars

(***************************************************************************)
(* Several runs of the program.  Each run of the binary constructs a       *)
(* Runner with Runner::new and interprets one bytecode; Restart ends a     *)
(* finished run and constructs the Runner of the next one.  Only the       *)
(* observation derived is carried over from run to run.                    *)
(***************************************************************************)
\* Runs are started as long as fewer than MaxDerived derivations have been
\* observed.  After a run that derived no address the next run is a first
\* run again (an initial state), so Restart follows runs that derived one.
MaxDerived == 2

\* The contracts the worlds of SpecRuns hold at AddressB and AddressC.
RunsB ==
    { AsmSstore(0, 1) \o AsmLog0(0, 0) \o <<OP_STOP>>,
      AsmSelfdestruct(1) \o AsmSstore(0, 1) }

RunsC == { AsmMstore(0, <<171>>) \o AsmReturn(31, 1) }

Restart ==
    /\ interpreting
    /\ callStack = <<>>
    /\ ~Running
    /\ derived # {}
    /\ Cardinality(derived) < MaxDerived
    /\ \E codeB \in RunsB, codeC \in RunsC, fork \in BOOLEAN :
          LET given == WithContract(
                           WithContract([accounts |-> EmptyMap, codes |-> EmptyMap],
                                        AddressB, codeB),
                           AddressC, codeC)
              new == Runner_new(given, CallerAddress, CallerAddress, MainAddress)
          IN /\ accounts' = new.accounts
             /\ codes' = new.codes
             /\ provider' = fork
    /\ pc' = 0
    /\ bytecode' = <<>>
    /\ debug_level' = None
    /\ call_depth' = 0
    /\ origin' = CallerAddress
    /\ caller' = CallerAddress
    /\ callvalue' = ZeroWord
    /\ address' = MainAddress
    /\ memory' = <<>>
    /\ calldata' = <<>>
    /\ returndata' = <<>>
    /\ stack' = <<>>
    /\ logs' = <<>>
    /\ static_mode' = FALSE
    /\ interpreting' = FALSE
    /\ error' = "None"
    /\ halted' = "none"
    /\ lastOp' = NoOp
    /\ UNCHANGED <<callStack, derived, applied>>

NextRuns == Next \/ Restart

(***************************************************************************)
(* The methods of Stack, Memory and EvmState called on their own, on the   *)
(* stack, the memory and the world state of a Runner that Runner::new has  *)
(* returned and that has not started to interpret.  applied records each   *)
(* call.                                                                   *)
(***************************************************************************)
\* The Runner with the given stack, memory and world state.
InitUnit(stk, mem, accts, cds, static, fork) ==
    /\ pc = 0
    /\ bytecode = <<>>
    /\ debug_level = None
    /\ call_depth = 0
    /\ origin = CallerAddress
    /\ caller = CallerAddress
    /\ callvalue = ZeroWord
    /\ address = MainAddress
    /\ memory = mem
    /\ calldata = <<>>
    /\ returndata = <<>>
    /\ stack = stk
    /\ accounts = accts
    /\ codes = cds
    /\ logs = <<>>
    /\ static_mode = static
    /\ provider = fork
    /\ interpreting = FALSE
    /\ error = "None"
    /\ callStack = <<>>
    /\ halted = "none"
    /\ lastOp = NoOp
    /\ derived = {}
    /\ applied = NoCall

\* The number of calls in a sequence of calls on the stack.
MaxStackCalls == 1

\* A further call can be made: the sequence is not at its bound and the
\* last call has returned.
CanCall(max) == applied.count < max /\ applied.err # "Panic"

\* answer is what the provider answered to the call, <<>> if it was not
\* asked.
CalledWith(op, args, before, err, result, answer) ==
    [op |-> op, args |-> args, before |-> before, err |-> err,
     result |-> result, answer |-> answer, count |-> applied.count + 1]

Called(op, args, before, err, result) ==
    CalledWith(op, args, before, err, result, <<>>)

\* Stacks of n words, the i-th from the bottom being i.
StackOf(n) == [i \in 1..n |-> pad_left(<<i % 256>>)]

StackDepths == {0, 1, 2, 3, 15, 16, 17, StackLimit - 1, StackLimit}

StackIndexes == 1..16

InitStack ==
    \E n \in StackDepths :
        InitUnit(StackOf(n), <<>>,
                 Runner_new([accounts |-> EmptyMap, codes |-> EmptyMap],
                            CallerAddress, CallerAddress, MainAddress).accounts,
                 EmptyMap, FALSE, FALSE)

UnchangedButStack ==
    UNCHANGED <<pc, bytecode, debug_level, call_depth, origin, caller, callvalue,
                address, memory, calldata, returndata, accounts, codes, logs,
                static_mode, provider, interpreting, error, callStack, halted,
                lastOp, derived>>

StackPush ==
    /\ CanCall(MaxStackCalls)
    /\ \E word \in {pad_left(<<255>>)} :
          LET r == Stack_push_call(stack, word)
          IN /\ stack' = r.stack
             /\ applied' = Called("push", <<word>>, stack, r.err, <<>>)
    /\ UnchangedButStack

StackPop ==
    /\ CanCall(MaxStackCalls)
    /\ LET r == Stack_pop(stack)
       IN /\ stack' = r.stack
          /\ applied' = Called("pop", <<>>, stack, r.err, <<>>)
    /\ UnchangedButStack

StackDup ==
    /\ CanCall(MaxStackCalls)
    /\ \E index \in StackIndexes :
          LET r == Stack_dup(stack, index)
          IN /\ stack' = r.stack
             /\ applied' = Called("dup", <<index>>, stack, r.err, <<>>)
    /\ UnchangedButStack

StackSwap ==
    /\ CanCall(MaxStackCalls)
    /\ \E index \in StackIndexes :
          LET r == Stack_swap(stack, index)
          IN /\ stack' = r.stack
             /\ applied' = Called("swap", <<index>>, stack, r.err, <<>>)
    /\ UnchangedButStack

NextStack == StackPush \/ StackPop \/ StackDup \/ StackSwap

SpecStack == InitStack /\ [][NextStack]_vars

\* Memory: a frame's memory starts empty (Memory::new(None)).
InitMemory ==
    InitUnit(<<>>, <<>>,
             Runner_new([accounts |-> EmptyMap, codes |-> EmptyMap],
                        CallerAddress, CallerAddress, MainAddress).accounts,
             EmptyMap, FALSE, FALSE)

\* The number of calls in a sequence of calls on the memory.
MaxMemoryCalls == 2

MemoryAddresses == {0, 1, 31, 32, 33, 64}

MemorySizes == {0, 1, 32, 33, 64}

\* Data of a given length, no byte of it zero.
DataOf(n) == [i \in 1..n |-> 255 - (i % 7)]

UnchangedButMemory ==
    UNCHANGED <<pc, bytecode, debug_level, call_depth, origin, caller, callvalue,
                address, stack, calldata, returndata, accounts, codes, logs,
                static_mode, provider, interpreting, error, callStack, halted,
                lastOp, derived>>

MemoryRead ==
    /\ CanCall(MaxMemoryCalls)
    /\ \E offset \in MemoryAddresses, size \in MemorySizes :
          IF Memory_read_panics(memory, offset, size)
          THEN /\ memory' = memory
               /\ applied' = Called("read", <<offset, size>>, memory, "Panic", <<>>)
          ELSE \E junk \in IF offset + size
                                  > Len(Memory_read_heap(memory, offset, size))
                            THEN JunkBytes ELSE {0} :
                 /\ memory' = Memory_read_heap(memory, offset, size)
                 /\ applied' = Called("read", <<offset, size>>, memory, "None",
                                      Memory_read(memory, offset, size, junk))
    /\ UnchangedButMemory

MemoryWrite ==
    /\ CanCall(MaxMemoryCalls)
    /\ \E offset \in MemoryAddresses, size \in MemorySizes :
          /\ memory' = Memory_write(memory, offset, DataOf(size))
          /\ applied' = Called("write", <<offset, DataOf(size)>>, memory,
                               "None", <<>>)
    /\ UnchangedButMemory

MemoryMload ==
    /\ CanCall(MaxMemoryCalls)
    /\ \E offset \in MemoryAddresses :
          /\ memory' = Memory_mload_heap(memory, offset)
          /\ applied' = Called("mload", <<offset>>, memory, "None",
                               Memory_mload(memory, offset))
    /\ UnchangedButMemory

MemoryMstore ==
    /\ CanCall(MaxMemoryCalls)
    /\ \E offset \in MemoryAddresses :
          /\ memory' = Memory_mstore(memory, offset, DataOf(32))
          /\ applied' = Called("mstore", <<offset, DataOf(32)>>, memory,
                               "None", <<>>)
    /\ UnchangedButMemory

NextMemory == MemoryRead \/ MemoryWrite \/ MemoryMload \/ MemoryMstore

SpecMemory == InitMemory /\ [][NextMemory]_vars

\* EvmState: the world state of a Runner::new on a state that holds the
\* contract B, inside or outside a static call, with or without a provider.
InitState ==
    \E static \in BOOLEAN, fork \in BOOLEAN :
        LET given == WithContract([accounts |-> EmptyMap, codes |-> EmptyMap],
                                  AddressB, <<OP_STOP>>)
            new == Runner_new(given, CallerAddress, CallerAddress, MainAddress)
        IN InitUnit(<<>>, <<>>, new.accounts, new.codes, static, fork)

\* The number of calls in a sequence of calls on the world state.
MaxStateCalls == 2

\* Accounts with a record (the caller holds the balance) and one without.
StateAddresses == {CallerAddress, MainAddress, AddressD}

\* Nothing, one unit, and more than any balance.
TransferValues == {ZeroWord, pad_left(<<1>>), U256_add(InitialCallerBalance, pad_left(<<1>>))}

StorageSlots == {ZeroWord, pad_left(<<1>>)}

StorageValues == {pad_left(<<7>>), pad_left(<<8>>)}

InstalledCodes == {<<>>, <<OP_INVALID>>}

UnchangedButState ==
    UNCHANGED <<pc, bytecode, debug_level, call_depth, origin, caller, callvalue,
                address, memory, calldata, returndata, stack, logs,
                static_mode, provider, interpreting, error, callStack, halted,
                lastOp, derived>>

\* The world state a call found.
WorldBefore == [accounts |-> accounts, codes |-> codes]

StateTransfer ==
    /\ CanCall(MaxStateCalls)
    /\ \E from \in StateAddresses, to \in StateAddresses, value \in TransferValues :
          LET r == EvmState_transfer(accounts, static_mode, from, to, value)
          IN /\ accounts' = r.accounts
             /\ applied' = Called("transfer", <<from, to, value>>, WorldBefore,
                                  r.err, <<>>)
    /\ UNCHANGED codes
    /\ UnchangedButState

StateSstore ==
    /\ CanCall(MaxStateCalls)
    /\ \E account \in StateAddresses, slot \in StorageSlots, value \in StorageValues :
          LET r == EvmState_sstore(accounts, static_mode, account, slot, value)
          IN /\ accounts' = r.accounts
             /\ applied' = Called("sstore", <<account, slot, value>>, WorldBefore,
                                  r.err, <<>>)
    /\ UNCHANGED codes
    /\ UnchangedButState

\* The provider is asked only for an account without a record.
StateSload ==
    /\ CanCall(MaxStateCalls)
    /\ \E account \in StateAddresses, slot \in StorageSlots :
        \E fetched \in IF account \notin DOMAIN accounts /\ provider
                        THEN FetchedWords ELSE {[ok |-> FALSE, value |-> ZeroWord]} :
          LET r == EvmState_sload(accounts, provider, account, slot, fetched)
          IN /\ accounts' = r.accounts
             /\ applied' = CalledWith("sload", <<account, slot>>, WorldBefore,
                                      "None", r.value,
                                      IF account \notin DOMAIN accounts /\ provider
                                      THEN <<fetched>> ELSE <<>>)
    /\ UNCHANGED codes
    /\ UnchangedButState

StatePutCodeAt ==
    /\ CanCall(MaxStateCalls)
    /\ \E addr \in StateAddresses, code \in InstalledCodes :
          LET r == EvmState_put_code_at(accounts, codes, static_mode, addr, code)
          IN /\ accounts' = r.accounts
             /\ codes' = r.codes
             /\ applied' = Called("put_code_at", <<addr, code>>, WorldBefore,
                                  r.err, <<>>)
    /\ UnchangedButState

StateGetCodeAt ==
    /\ CanCall(MaxStateCalls)
    /\ \E addr \in StateAddresses :
        \E fetched \in IF addr \notin DOMAIN accounts /\ provider
                        THEN FetchedCodes ELSE {[ok |-> FALSE, value |-> <<>>]} :
          LET r == EvmState_get_code_at(accounts, codes, provider, addr, fetched)
          IN /\ accounts' = r.accounts
             /\ codes' = r.codes
             /\ applied' = CalledWith("get_code_at", <<addr>>, WorldBefore,
                                      r.err, r.code,
                                      IF addr \notin DOMAIN accounts /\ provider
                                      THEN <<fetched>> ELSE <<>>)
    /\ UnchangedButState

StateInitAccount ==
    /\ CanCall(MaxStateCalls)
    /\ \E addr \in StateAddresses :
          LET r == init_account(accounts, addr)
          IN /\ accounts' = r.accounts
             /\ applied' = Called("init_account", <<addr>>, WorldBefore,
                                  r.err, <<>>)
    /\ UNCHANGED codes
    /\ UnchangedButState

StateDeleteAccount ==
    /\ CanCall(MaxStateCalls)
    /\ \E addr \in StateAddresses :
          /\ accounts' = delete_account(accounts, addr)
          /\ applied' = Called("delete_account", <<addr>>, WorldBefore,
                               "None", <<>>)
    /\ UNCHANGED codes
    /\ UnchangedButState

NextState ==
    \/ StateTransfer
    \/ StateSstore
    \/ StateSload
    \/ StatePutCodeAt
    \/ StateGetCodeAt
    \/ StateInitAccount
    \/ StateDeleteAccount

SpecState == InitState /\ [][NextState]_vars

InitRuns ==
    /\ Init
    /\ get_code(codes, accounts[AddressB].code_hash).code \in RunsB
    /\ get_code(codes, accounts[AddressC].code_hash).code \in RunsC

SpecRuns == InitRuns /\ [][NextRuns]_vars

(***************************************************************************)
(* The serialisation of the nonce in CREATE's address derivation, applied  *)
(* to the nonces of a sequence of CREATEs of one account.                  *)
(***************************************************************************)
\* The number of nonces serialised in a sequence.
MaxStripCalls == 2

\* Nonces an account goes through: of one byte, of two bytes and of three
\* bytes, with and without zero bytes at the end.
NonceValues == {1, 2, 3, 255, 256, 257, 511, 512, 513, 65535, 65536, 65537}

InitNonces ==
    InitUnit(<<>>, <<>>,
             Runner_new([accounts |-> EmptyMap, codes |-> EmptyMap],
                        CallerAddress, CallerAddress, MainAddress).accounts,
             EmptyMap, FALSE, FALSE)

\* strip_zero_padding(&get_nonce(..)) for an account whose nonce is n; the
\* call before is kept for comparison.
NonceStrip ==
    /\ CanCall(MaxStripCalls)
    /\ \E n \in NonceValues :
          applied' = Called("strip_zero_padding", <<n>>,
                            [args |-> applied.args, result |-> applied.result],
                            "None", strip_zero_padding(u64_to_u256_array(n)))
    /\ UNCHANGED <<pc, bytecode, debug_level, call_depth, origin, caller,
                   callvalue, address, memory, calldata, returndata, stack,
                   accounts, codes, logs, static_mode, provider, interpreting,
                   error, callStack, halted, lastOp, derived>>

NextNonces == NonceStrip

SpecNonces == InitNonces /\ [][NextNonces]_vars

(***************************************************************************)
(* Arithmetic handlers called on a new Runner whose stack holds the        *)
(* operands, as the examples in the handlers' documentation call them.     *)
(***************************************************************************)
\* op_codes::arithmetic::unsigned::addmod: the error returned and the stack
\* as the handler leaves it.
addmod(stk) ==
    IF Stack_pop_fails(stk, 3)
    THEN [err |-> "StackTooSmall", stack |-> Stack_popped(stk, 3)]
    ELSE LET a == Stack_nth(stk, 1)
             b == Stack_nth(stk, 2)
             c == Stack_nth(stk, 3)
             result == U256_rem_or_zero(U256_overflowing_add(a, b), c)
         IN [err |-> "None", stack |-> Stack_push(Stack_popped(stk, 3), result)]

\* op_codes::arithmetic::unsigned::mulmod
mulmod(stk) ==
    IF Stack_pop_fails(stk, 3)
    THEN [err |-> "StackTooSmall", stack |-> Stack_popped(stk, 3)]
    ELSE LET a == Stack_nth(stk, 1)
             b == Stack_nth(stk, 2)
             c == Stack_nth(stk, 3)
             result == U256_rem_or_zero(U256_overflowing_mul(a, b), c)
         IN [err |-> "None", stack |-> Stack_push(Stack_popped(stk, 3), result)]

\* op_codes::arithmetic::signed::sdiv
sdiv(stk) ==
    IF Stack_pop_fails(stk, 2)
    THEN [err |-> "StackTooSmall", stack |-> Stack_popped(stk, 2)]
    ELSE LET a == Stack_nth(stk, 1)
             b == Stack_nth(stk, 2)
         IN [err |-> "None",
             stack |-> Stack_push(Stack_popped(stk, 2), I256_div_or_zero(a, b))]

\* The number of handlers called in a sequence.
MaxArithCalls == 1

\* Zero, a small word, the largest word (minus one when signed), the
\* smallest signed word and a small negative word.
ArithWords ==
    {ZeroWord, pad_left(<<3>>), I256_minus_one, I256_MIN,
     I256_twos_complement(pad_left(<<7>>))}

\* The operands on the stack: a on top, then b, then c.
InitArith ==
    \E a \in ArithWords, b \in ArithWords, c \in ArithWords :
        InitUnit(<<c, b, a>>, <<>>,
                 Runner_new([accounts |-> EmptyMap, codes |-> EmptyMap],
                            CallerAddress, CallerAddress, MainAddress).accounts,
                 EmptyMap, FALSE, FALSE)

UnchangedButArith ==
    UNCHANGED <<bytecode, debug_level, call_depth, origin, caller, callvalue,
                address, memory, calldata, returndata, accounts, codes, logs,
                static_mode, provider, interpreting, error, callStack, halted,
                lastOp, derived>>

\* A handler that returned Ok has incremented the program counter.
ArithCall(op, r) ==
    /\ stack' = r.stack
    /\ pc' = IF r.err = "None" THEN pc + 1 ELSE pc
    /\ applied' = Called(op, <<>>, stack, r.err, <<>>)
    /\ UnchangedButArith

ArithAddmod == CanCall(MaxArithCalls) /\ ArithCall("addmod", addmod(stack))

ArithMulmod == CanCall(MaxArithCalls) /\ ArithCall("mulmod", mulmod(stack))

ArithSdiv == CanCall(MaxArithCalls) /\ ArithCall("sdiv", sdiv(stack))

NextArith == ArithAddmod \/ ArithMulmod \/ ArithSdiv

SpecArith == InitArith /\ [][NextArith]_vars

\* Every byte the dispatch loop meets in the model's programs is an opcode
\* the model has a handler for.
OpcodesModelled ==
    Running =>
        \/ opcode \notin DispatchedOpcodes
        \/ opcode \in {OP_JUMP, OP_JUMPI, OP_JUMPDEST}
        \/ opcode \in {OP_CALLDATALOAD, OP_CALLDATASIZE, OP_CALLDATACOPY, OP_LOG2}
        \/ opcode \in {OP_STOP, OP_RETURNDATASIZE, OP_MSTORE, OP_SLOAD, OP_SSTORE,
                       OP_LOG0, OP_CREATE, OP_CALL, OP_CALLCODE, OP_RETURN,
                       OP_DELEGATECALL, OP_CREATE2, OP_STATICCALL, OP_REVERT,
                       OP_SELFDESTRUCT}
        \/ opcode \in OP_PUSH0..(OP_PUSH0 + WordSize)

(***************************************************************************)
(* The properties of the call protocol.                                    *)
(***************************************************************************)
CallOps == {"call", "staticcall", "delegatecall"}

CreateOps == {"create", "create2"}

\* The handler of one of ops has just run to its end.
Completed(ops) == lastOp.phase = "completed" /\ lastOp.op \in ops

Operands(op) == IF op = "call" THEN 7 ELSE 6

\* balance, storage and code_hash of every account, and the set of accounts.
AccountView(accts) ==
    [a \in DOMAIN accts |->
        [balance |-> accts[a].balance, storage |-> accts[a].storage,
         code_hash |-> accts[a].code_hash]]

\* The slots an account holds and the word a slot holds; a slot that is not
\* there, or whose account is not there, holds zero.
SlotsOf(accts, a) == IF a \in DOMAIN accts THEN DOMAIN accts[a].storage ELSE {}

SlotValue(accts, a, slot) ==
    IF slot \in SlotsOf(accts, a) THEN accts[a].storage[slot] ELSE ZeroWord

SameStorage(before, after) ==
    \A a \in (DOMAIN before) \cup (DOMAIN after) :
        \A slot \in SlotsOf(before, a) \cup SlotsOf(after, a) :
            SlotValue(after, a, slot) = SlotValue(before, a, slot)

ByteAt(heap, i) == IF i <= Len(heap) THEN heap[i] ELSE 0

LongerOf(a, b) == IF Len(a) >= Len(b) THEN Len(a) ELSE Len(b)

\* A frame entered through a STATICCALL, directly or transitively, is running.
InStaticSubtree ==
    \E i \in 1..Len(callStack) : callStack[i].op = "staticcall"

\* The running frame is one entered by DELEGATECALL.
InDelegateFrame ==
    /\ callStack # <<>>
    /\ callStack[Len(callStack)].op = "delegatecall"

\* C1: when the sub-frame of a CALL, DELEGATECALL or STATICCALL ended in REVERT
\* or in another error, then after the opcode the balance, storage and
\* code_hash of every account, the set of accounts, the code table and the
\* logs are what they were before the opcode, and the word pushed is 0.
C1_FailedCallRestoresWorld ==
    (Completed(CallOps) /\ lastOp.outcome \in {"revert", "error"} /\ error = "None")
        => /\ AccountView(accounts) = AccountView(lastOp.pre.accounts)
           /\ codes = lastOp.pre.codes
           /\ logs = lastOp.pre.logs
           /\ stack # <<>>
           /\ stack[Len(stack)] = ZeroWord

\* A CALL whose sub-frame reverted has completed, 0 is on the stack, and a
\* storage slot no longer holds its value from before the CALL.
C1_RevertedStoreSurvives ==
    /\ Completed(CallOps)
    /\ lastOp.outcome = "revert"
    /\ error = "None"
    /\ stack[Len(stack)] = ZeroWord
    /\ ~SameStorage(lastOp.pre.accounts, accounts)

\* C2: after CALL, DELEGATECALL, STATICCALL, CREATE or CREATE2, whatever the
\* sub-frame did and also when the target's code is not found, the parent's
\* bytecode, calldata, caller, address, callvalue, debug level and call depth
\* are those from before the opcode, pc is the opcode's position plus one and
\* memory is unchanged outside the output window.
C2_ParentFrameRestored ==
    (Completed(CallOps \cup CreateOps) /\ error = "None")
        => /\ bytecode = lastOp.pre.bytecode
           /\ calldata = lastOp.pre.calldata
           /\ caller = lastOp.pre.caller
           /\ address = lastOp.pre.address
           /\ callvalue = lastOp.pre.callvalue
           /\ debug_level = lastOp.pre.debug_level
           /\ call_depth = lastOp.pre.call_depth
           /\ pc = lastOp.pre.pc + 1
           /\ \A i \in 1..LongerOf(memory, lastOp.pre.memory) :
                 (i <= lastOp.out_off \/ i > lastOp.out_off + lastOp.out_size)
                     => ByteAt(memory, i) = ByteAt(lastOp.pre.memory, i)

\* A CALL of an address whose code is not found has completed and the frame
\* that goes on running has the fields Runner::call set for the sub-frame.
C2_CodeNotFoundKeepsSubFrame ==
    /\ Completed(CallOps)
    /\ lastOp.outcome = "nocode"
    /\ error = "None"
    /\ address = lastOp.to
    /\ address # lastOp.pre.address
    /\ caller = lastOp.pre.address
    /\ call_depth = lastOp.pre.call_depth + 1
    /\ bytecode = lastOp.pre.bytecode
    /\ pc = 1

\* C3: after CALL, DELEGATECALL or STATICCALL the parent's stack is its stack
\* from before the opcode without the 7 (CALL) or 6 operands and with one word
\* on top: 1 when the sub-frame halted Ok, 0 otherwise.
C3_CallStackEffect ==
    (Completed(CallOps) /\ error = "None")
        => stack = Append(Stack_popped(lastOp.pre.stack, Operands(lastOp.op)),
                          pad_left(<<IF lastOp.outcome = "ok" THEN 1 ELSE 0>>))

\* A CALL of an address whose code is not found has completed: a word lay
\* under the operands before it, and the stack is now the pushed 0 alone.
C3_CodeNotFoundDropsStack ==
    /\ Completed(CallOps)
    /\ lastOp.outcome = "nocode"
    /\ Len(lastOp.pre.stack) > Operands(lastOp.op)
    /\ stack = <<ZeroWord>>

\* C4: in a frame entered, directly or transitively, through a STATICCALL no
\* step changes a storage slot and SSTORE fails with the static violation; and
\* when a STATICCALL has completed every storage slot holds its value from
\* before the STATICCALL.
C4_NoStoreInStaticSubtree ==
    [][ /\ InStaticSubtree => SameStorage(accounts, accounts')
        /\ (InStaticSubtree /\ Running /\ opcode = OP_SSTORE /\ Len(stack) >= 2)
               => error' = "StaticCallStateChanged"
        /\ (lastOp'.phase = "completed" /\ lastOp'.op = "staticcall")
               => SameStorage(lastOp'.pre.accounts, accounts')
      ]_vars

\* A frame entered through a STATICCALL is running and a storage slot no
\* longer holds its value from before that STATICCALL.
C4_StoredInStaticSubtree ==
    \E i \in 1..Len(callStack) :
        /\ callStack[i].op = "staticcall"
        /\ ~SameStorage(callStack[i].pre.accounts, accounts)

\* C5: static_mode is true while a frame of a STATICCALL sub-tree runs, and
\* after a STATICCALL it has the value it had before that STATICCALL.
C5_StaticModeScoped ==
    /\ InStaticSubtree => static_mode
    /\ Completed({"staticcall"}) => static_mode = lastOp.pre.static_mode

\* A frame entered through a STATICCALL goes on running with static_mode off.
C5_StaticModeLost ==
    /\ InStaticSubtree
    /\ Running
    /\ ~static_mode

\* C6: a step taken while static_mode is true changes no account record, adds
\* or removes none, adds no code-table entry and appends no log; SSTORE, LOG0,
\* CREATE and CREATE2 with their operands on the stack fail with the static
\* violation.
C6_StaticModeFreezesWorld ==
    [][ static_mode =>
          /\ accounts' = accounts
          /\ codes' = codes
          /\ logs' = logs
          /\ ( /\ Running
               /\ \/ opcode \in {OP_SSTORE, OP_LOG0} /\ Len(stack) >= 2
                  \/ opcode = OP_CREATE /\ Len(stack) >= 3
                  \/ opcode = OP_CREATE2 /\ Len(stack) >= 4 )
                 => error' = "StaticCallStateChanged"
      ]_vars

\* A DELEGATECALL issued with static_mode on has completed with static_mode
\* still on, and the nonce of the running account is not what it was.
C6_NonceMovedInStaticMode ==
    /\ Completed({"delegatecall"})
    /\ lastOp.pre.static_mode
    /\ static_mode
    /\ address \in DOMAIN lastOp.pre.accounts
    /\ address \in DOMAIN accounts
    /\ accounts[address].nonce # lastOp.pre.accounts[address].nonce

\* C7: after a sub-call the parent's returndata is the window the sub-frame
\* passed to RETURN or REVERT, and it is empty when the sub-frame halted with
\* an error other than REVERT.
C7_ReturnDataOfSubFrame ==
    Completed(CallOps \cup CreateOps)
        => /\ lastOp.sub_halted \in {"return", "revert"}
                  => returndata = lastOp.sub_returndata
           /\ lastOp.outcome = "error" => returndata = <<>>

\* A sub-frame halted with an error that is not REVERT and the parent's
\* returndata holds bytes.
C7_ErrorHandsOverData ==
    /\ Completed(CallOps)
    /\ lastOp.outcome = "error"
    /\ lastOp.sub_halted = "none"
    /\ returndata # <<>>

\* C8: a sub-frame that halts by STOP or by running off the end of its code
\* hands empty return data to its parent.
C8_StopReturnsNothing ==
    (Completed(CallOps \cup CreateOps) /\ lastOp.outcome = "ok"
         /\ lastOp.sub_halted \in {"stop", "none"})
        => returndata = <<>>

\* A sub-frame halted by STOP and the parent's returndata holds bytes.
C8_StopHandsOverData ==
    /\ Completed(CallOps)
    /\ lastOp.outcome = "ok"
    /\ lastOp.sub_halted = "stop"
    /\ returndata # <<>>

\* C9: while a frame entered by DELEGATECALL runs, caller, address and
\* callvalue are the parent's and a step of that frame changes the storage of
\* no account other than the parent's address.
C9_DelegateKeepsContext ==
    [][ InDelegateFrame =>
          LET rec == callStack[Len(callStack)]
          IN /\ caller = rec.pre.caller
             /\ address = rec.pre.address
             /\ callvalue = rec.pre.callvalue
             /\ \A a \in (DOMAIN accounts) \cap (DOMAIN accounts') :
                   a # rec.pre.address
                       => accounts'[a].storage = accounts[a].storage
      ]_vars

\* A frame entered by DELEGATECALL is running, its address is no longer the
\* parent's, and a slot of that other account no longer holds its value from
\* before the DELEGATECALL.
C9_DelegateStoredElsewhere ==
    /\ InDelegateFrame
    /\ address # callStack[Len(callStack)].pre.address
    /\ \E slot \in SlotsOf(accounts, address) :
          SlotValue(accounts, address, slot)
              # SlotValue(callStack[Len(callStack)].pre.accounts, address, slot)

\* The in_off and in_size operands of CALL (popped 4th and 5th) and STATICCALL
\* (3rd and 4th) on the stack before the opcode.
CalldataOffset ==
    as_usize(Stack_nth(lastOp.pre.stack, IF lastOp.op = "call" THEN 4 ELSE 3))

CalldataSize ==
    as_usize(Stack_nth(lastOp.pre.stack, IF lastOp.op = "call" THEN 5 ELSE 4))

SubFrameEntered == lastOp.phase = "entered" /\ lastOp.op \in {"call", "staticcall"}

\* What C10 says of everything but the calldata.
SubFrameFields ==
    /\ caller = lastOp.pre.address
    /\ address = bytes32_to_address(Stack_nth(lastOp.pre.stack, 2))
    /\ callvalue = IF lastOp.op = "call" THEN Stack_nth(lastOp.pre.stack, 3)
                   ELSE ZeroWord
    /\ address \in DOMAIN accounts
           => /\ accounts[address].code_hash \in DOMAIN codes
              /\ bytecode = codes[accounts[address].code_hash]
    /\ stack = <<>>
    /\ memory = <<>>
    /\ returndata = <<>>
    /\ pc = 0
    /\ call_depth = lastOp.pre.call_depth + 1

\* C10: the sub-frame of a CALL or STATICCALL starts with caller = the parent's
\* address, address = the target, callvalue = the value operand (zero for
\* STATICCALL), calldata = the bytes of the parent's memory at in_off of length
\* in_size, bytecode = the target's code, empty stack, memory and returndata,
\* pc 0 and the parent's call depth plus one.
C10_SubFrameSetup ==
    SubFrameEntered
        => /\ SubFrameFields
           /\ calldata = [i \in 1..CalldataSize |->
                              ByteAt(lastOp.pre.memory, CalldataOffset + i)]

\* The sub-frame of a CALL has started with every field as C10 says but the
\* calldata, which holds a byte that is not the byte of the parent's memory.
C10_CalldataNotTheWindow ==
    /\ SubFrameEntered
    /\ SubFrameFields
    /\ Len(calldata) = CalldataSize
    /\ \E i \in 1..CalldataSize :
          calldata[i] # ByteAt(lastOp.pre.memory, CalldataOffset + i)

(***************************************************************************)
(* The nonce bookkeeping of Runner::call.                                  *)
(***************************************************************************)
\* C11: every completed CALL, DELEGATECALL, STATICCALL, CREATE or CREATE2
\* increases the nonce of the parent frame's callee account by exactly one:
\* the step that completes the opcode leaves the account the opcode was
\* executed by (when it has a record) with its nonce one higher.
C11_NonceIncremented ==
    [][lastOp'.phase = "completed" /\ lastOp'.pre.address \in DOMAIN accounts
          => /\ lastOp'.pre.address \in DOMAIN accounts'
             /\ accounts'[lastOp'.pre.address].nonce
                    = accounts[lastOp'.pre.address].nonce + 1]_vars

\* A CALL whose target has no code has completed and the nonce of the
\* account that executed it is what it was before the CALL.
C11_CompletedWithoutIncrement ==
    /\ Completed(CallOps)
    /\ lastOp.outcome = "nocode"
    /\ lastOp.pre.address \in DOMAIN accounts
    /\ lastOp.pre.address \in DOMAIN lastOp.pre.accounts
    /\ accounts[lastOp.pre.address].nonce
           = lastOp.pre.accounts[lastOp.pre.address].nonce

(***************************************************************************)
(* CREATE and CREATE2.                                                     *)
(***************************************************************************)
\* The code stored under an account: the entry of the code table under the
\* account's code hash.
CodeAt(accts, cds, a) == get_code(cds, accts[a].code_hash).code

BalanceOf(accts, a) == accts[a].balance

\* The step in which a CREATE or CREATE2 completes.
CreateCompletes == lastOp'.phase = "completed" /\ lastOp'.op \in CreateOps

C13_FailedCreateLeavesNothing ==
    (/\ Completed(CreateOps)
     /\ lastOp.outcome \in {"revert", "error"}
     /\ error = "None"
     /\ lastOp.to \notin DOMAIN lastOp.pre.accounts
     /\ lastOp.pre.caller \in DOMAIN lastOp.pre.accounts)
        => /\ stack # <<>>
           /\ stack[Len(stack)] = ZeroWord
           /\ lastOp.to \notin DOMAIN accounts
           /\ lastOp.pre.caller \in DOMAIN accounts
           /\ BalanceOf(accounts, lastOp.pre.caller)
                  = BalanceOf(lastOp.pre.accounts, lastOp.pre.caller)

\* A CREATE whose constructor reverted has completed with 0 pushed, and the
\* derived address has an account record that holds the value and has the
\* revert data as its code.
C13_FailedCreateLeftAccount ==
    /\ Completed(CreateOps)
    /\ lastOp.outcome = "revert"
    /\ error = "None"
    /\ stack[Len(stack)] = ZeroWord
    /\ lastOp.to \notin DOMAIN lastOp.pre.accounts
    /\ lastOp.to \in DOMAIN accounts
    /\ lastOp.value # ZeroWord
    /\ BalanceOf(accounts, lastOp.to) = lastOp.value
    /\ CodeAt(accounts, codes, lastOp.to) = lastOp.sub_returndata

\* C14: the address derived by CREATE is determined by the caller address and
\* that caller account's current nonce alone: any two CREATE executions in
\* which the caller address and the caller account's nonce are equal derive
\* equal addresses.
C14_CreateAddressDeterminism ==
    \A d1 \in derived, d2 \in derived :
        (d1.caller = d2.caller /\ d1.caller_nonce = d2.caller_nonce)
            => d1.contract_address = d2.contract_address

\* Two CREATE executions with the same caller address, whose account has the
\* same nonce, have derived different addresses: the nonces of the executing
\* account differ.
C14_SameCallerOtherAddress ==
    \E d1 \in derived, d2 \in derived :
        /\ d1.caller = d2.caller
        /\ d1.caller_nonce = d2.caller_nonce
        /\ d1.caller_nonce.err = "None"
        /\ d1.address = d2.address
        /\ d1.address_nonce # d2.address_nonce
        /\ d1.contract_address # d2.contract_address

(***************************************************************************)
(* SELFDESTRUCT.                                                           *)
(***************************************************************************)
\* The step in which SELFDESTRUCT executes successfully.
SelfdestructSucceeds ==
    Running /\ opcode = OP_SELFDESTRUCT /\ error' = "None" /\ pc' # pc

\* C15: after SELFDESTRUCT executes successfully the frame is halted Ok: the
\* dispatch loop of the frame has nothing left to execute, so no opcode that
\* follows the SELFDESTRUCT in the bytecode is executed in that frame.
C15_SelfdestructHalts ==
    [][SelfdestructSucceeds => ~Running']_vars

\* The SSTORE that follows a SELFDESTRUCT in the bytecode has been executed in
\* the same frame: it failed because the executing account is gone.
C15_RanOnAfterSelfdestruct ==
    /\ interpreting
    /\ pc < Len(bytecode)
    /\ opcode = OP_SSTORE
    /\ error = "AccountNotFound"
    /\ address \notin DOMAIN accounts
    /\ \E i \in 1..pc : bytecode[i] = OP_SELFDESTRUCT

\* The step in which the handler of SELFDESTRUCT runs with its operand on the
\* stack, and the beneficiary the operand names.
SelfdestructExecutes == Running /\ opcode = OP_SELFDESTRUCT /\ stack # <<>>

Beneficiary == bytes32_to_address(stack[Len(stack)])

BalancesOf(accts) == [a \in DOMAIN accts |-> accts[a].balance]

\* C16: SELFDESTRUCT executed outside a static sub-tree, with an existing
\* beneficiary account different from the executing account, adds the
\* executing account's entire balance to the beneficiary's balance and removes
\* the executing account's record, so that a later balance lookup of it fails
\* with account-missing; inside a static sub-tree it fails with
\* static-violation and neither balances nor accounts change.
C16_SelfdestructEffect ==
    [][SelfdestructExecutes /\ address \in DOMAIN accounts
          => IF InStaticSubtree
             THEN /\ error' = "StaticCallStateChanged"
                  /\ BalancesOf(accounts') = BalancesOf(accounts)
             ELSE (Beneficiary \in DOMAIN accounts /\ Beneficiary # address)
                     => /\ error' = "None"
                        /\ BalanceOf(accounts', Beneficiary)
                               = U256_add(BalanceOf(accounts, Beneficiary),
                                          BalanceOf(accounts, address))
                        /\ get_balance(accounts', address).err = "AccountNotFound"
      ]_vars

\* A frame entered through a STATICCALL has executed SELFDESTRUCT after a
\* STATICCALL of its own: its account is gone, inside the static sub-tree.
C16_DestroyedInStaticSubtree ==
    /\ InStaticSubtree
    /\ error = "None"
    /\ pc >= 1
    /\ bytecode[pc] = OP_SELFDESTRUCT
    /\ address \notin DOMAIN accounts
    /\ address \in DOMAIN callStack[Len(callStack)].pre.accounts

(***************************************************************************)
(* Jumps and the program counter.                                          *)
(***************************************************************************)
\* The step in which JUMP, or JUMPI with a non-zero condition, runs with its
\* operands on the stack, and the destination it pops.
Jumps ==
    /\ Running
    /\ \/ opcode = OP_JUMP /\ Len(stack) >= 1
       \/ opcode = OP_JUMPI /\ Len(stack) >= 2 /\ Stack_nth(stack, 2) # ZeroWord

Destination == as_usize(Stack_nth(stack, 1))

\* C17: JUMP (and JUMPI with a non-zero condition) fails with invalid-jump, and
\* the frame halts, unless the popped destination is strictly less than the
\* bytecode length and the byte at the destination is the JUMPDEST opcode;
\* when both hold the program counter becomes the destination.
C17_JumpChecksDestination ==
    [][Jumps
          => IF Destination < Len(bytecode)
                /\ bytecode[Destination + 1] = OP_JUMPDEST
             THEN error' = "None" /\ pc' = Destination
             ELSE error' = "InvalidJumpDestination"]_vars

\* The frame is running at a byte that is not a JUMPDEST, and a JUMP of the
\* bytecode whose operand is that offset has brought it there.
C17_JumpedToOtherByte ==
    /\ interpreting
    /\ error = "None"
    /\ call_depth = 0
    /\ pc < Len(bytecode)
    /\ opcode # OP_JUMPDEST
    /\ stack = <<>>
    /\ Len(bytecode) >= 3
    /\ bytecode[1] = OP_PUSH0 + 1
    /\ bytecode[2] = pc
    /\ bytecode[3] = OP_JUMP

\* The step in which JUMPI runs with its two operands on the stack.
JumpiExecutes == Running /\ opcode = OP_JUMPI /\ Len(stack) >= 2

\* What a JUMP to dest does to the program counter and the error of the
\* frame (flow::jump).
JumpsTo(dest) ==
    IF dest > Len(bytecode)
    THEN error' = "OutOfBoundsByteCode" /\ pc' = pc
    ELSE error' = "None" /\ pc' = dest

\* C18: JUMPI with condition 0 advances the program counter by exactly one and
\* raises no error, whatever the popped destination is; with a non-zero
\* condition it behaves exactly as JUMP to the popped destination.
C18_JumpiOnCondition ==
    [][JumpiExecutes
          => IF Stack_nth(stack, 2) = ZeroWord
             THEN error' = "None" /\ pc' = pc + 1
             ELSE JumpsTo(Destination)]_vars

\* A JUMPI whose condition is 0 and whose destination is beyond the bytecode
\* has failed.
C18_UntakenJumpiFailed ==
    /\ interpreting
    /\ error = "OutOfBoundsByteCode"
    /\ pc = 4
    /\ pc < Len(bytecode)
    /\ opcode = OP_JUMPI
    /\ bytecode[1] = OP_PUSH0 + 1
    /\ bytecode[2] = 0
    /\ bytecode[3] = OP_PUSH0 + 1
    /\ bytecode[4] > Len(bytecode)
    /\ stack = <<>>

\* The number of immediate bytes that follow an opcode byte (PUSH1..PUSH32).
ImmediateLen(byte) ==
    IF byte \in (OP_PUSH0 + 1)..(OP_PUSH0 + WordSize) THEN byte - OP_PUSH0 ELSE 0

\* The offsets of the opcode bytes of code: the bytes a sweep from offset 0
\* meets when it skips the immediate of every PUSH.
RECURSIVE OpcodeOffsetsFrom(_, _)
OpcodeOffsetsFrom(code, i) ==
    IF i >= Len(code) THEN {}
    ELSE {i} \cup OpcodeOffsetsFrom(code, i + 1 + ImmediateLen(code[i + 1]))

OpcodeOffsets(code) == OpcodeOffsetsFrom(code, 0)

AtInstruction(code, counter) ==
    counter \in OpcodeOffsets(code) \cup {Len(code)}

\* C19: between instructions, the program counter of every frame, the running
\* one and the ones waiting for a sub-frame, is either the offset of an opcode
\* byte of the frame's bytecode (never a byte inside a PUSH immediate) or
\* exactly the bytecode length; it is never greater than the bytecode length.
C19_PcAtInstruction ==
    /\ AtInstruction(bytecode, pc)
    /\ \A i \in 1..Len(callStack) :
           AtInstruction(callStack[i].initial_bytecode, callStack[i].initial_pc)

\* The frame is running with its program counter on the immediate byte of a
\* PUSH1.
C19_PcInsideImmediate ==
    /\ Running
    /\ pc >= 1
    /\ pc - 1 \in OpcodeOffsets(bytecode)
    /\ bytecode[pc] = OP_PUSH0 + 1
    /\ pc \notin OpcodeOffsets(bytecode)

(***************************************************************************)
(* Empty bytecode.                                                         *)
(***************************************************************************)
\* The CALL, DELEGATECALL or STATICCALL that has just completed entered a
\* sub-frame whose code, the code stored under the target, is empty.
CalledEmptyCode ==
    /\ Completed(CallOps)
    /\ lastOp.outcome # "nocode"
    /\ lastOp.to \in DOMAIN lastOp.pre.accounts
    /\ get_code(lastOp.pre.codes,
                lastOp.pre.accounts[lastOp.to].code_hash)
           = [err |-> "None", code |-> <<>>]

\* C20: the empty-bytecode error is raised only when the outermost frame is
\* started with zero-length bytecode; a sub-frame whose code is the empty byte
\* string halts Ok at once, so the CALL, DELEGATECALL or STATICCALL that
\* entered it pushes 1.
C20_EmptyCodeHaltsOk ==
    /\ error = "EmptyByteCode" => callStack = <<>> /\ call_depth = 0
    /\ (CalledEmptyCode /\ error = "None")
           => /\ lastOp.outcome = "ok"
              /\ stack # <<>>
              /\ stack[Len(stack)] = pad_left(<<1>>)

\* A CALL of an account whose code is empty has completed: the sub-frame
\* failed and 0 was pushed.
C20_EmptyCodeCallFailed ==
    /\ CalledEmptyCode
    /\ error = "None"
    /\ lastOp.outcome = "error"
    /\ stack[Len(stack)] = ZeroWord

(***************************************************************************)
(* The stack.                                                              *)
(***************************************************************************)
\* C21: in every reachable state the stack holds at most 1024 words: no
\* operation takes the stack from 1024 to 1025 entries.
C21_StackDepthBounded == Len(stack) <= StackLimit

\* A dup on a stack of 1024 words has returned Ok and the stack holds 1025
\* words.
C21_DupOverflows ==
    /\ applied.op = "dup"
    /\ applied.err = "None"
    /\ Len(applied.before) = StackLimit
    /\ Len(stack) = StackLimit + 1

\* The last call was swap(n), resp. dup(n), on a stack of len words.
SwapCalled == applied.op = "swap"
DupCalled == applied.op = "dup"
CallIndex == applied.args[1]
DepthBefore == Len(applied.before)

\* C22: swap(n), n in 1..16, on a stack of at least n+1 words exchanges the
\* top word with the word n positions below it and changes no other position;
\* on a stack of n or fewer words it returns stack-underflow and leaves the
\* stack unchanged.
C22_SwapExchangesOrUnderflows ==
    SwapCalled =>
        IF DepthBefore >= CallIndex + 1
        THEN /\ applied.err = "None"
             /\ Len(stack) = DepthBefore
             /\ stack[DepthBefore] = applied.before[DepthBefore - CallIndex]
             /\ stack[DepthBefore - CallIndex] = applied.before[DepthBefore]
             /\ \A i \in 1..DepthBefore :
                    i \notin {DepthBefore, DepthBefore - CallIndex}
                        => stack[i] = applied.before[i]
        ELSE /\ applied.err = "StackTooSmall"
             /\ stack = applied.before

\* swap(n) on a stack of exactly n words did not return.
C22_SwapPanicked ==
    /\ SwapCalled
    /\ DepthBefore = CallIndex
    /\ applied.err = "Panic"

\* C23: dup(n), n in 1..16, on a stack of at least n words pushes a copy of
\* the n-th word from the top and leaves the words below unchanged; on a
\* stack of fewer than n words it returns stack-underflow and leaves the
\* stack unchanged.
C23_DupCopiesOrUnderflows ==
    DupCalled =>
        IF DepthBefore >= CallIndex
        THEN /\ applied.err = "None"
             /\ Len(stack) = DepthBefore + 1
             /\ stack[Len(stack)] = Stack_nth(applied.before, CallIndex)
             /\ SubSeq(stack, 1, DepthBefore) = applied.before
        ELSE /\ applied.err = "StackTooSmall"
             /\ stack = applied.before

\* dup(16) on a stack of 17 words has pushed the second word from the bottom.
C23_DupDeep ==
    /\ DupCalled
    /\ CallIndex = 16
    /\ DepthBefore = 17
    /\ applied.err = "None"
    /\ stack[Len(stack)] = pad_left(<<2>>)

(***************************************************************************)
(* The memory.                                                             *)
(***************************************************************************)
\* C24: after any sequence of read, write, load_word and store_word on a
\* memory that starts empty, the memory length is a multiple of 32.
C24_MemoryLengthMultipleOf32 == Len(memory) % 32 = 0

\* A write of one byte at offset 0 into the empty memory has left a memory
\* of 33 bytes.
C24_WriteLeft33Bytes ==
    /\ applied.op = "write"
    /\ applied.before = <<>>
    /\ applied.args = <<0, DataOf(1)>>
    /\ Len(memory) = 33

\* The smallest multiple of 32 that is at least n.
Ceil32(n) == ((n + 31) \div 32) * 32

\* The last call was read(offset, size) or write(offset, bytes); the range
\* it accesses is [RangeStart, RangeEnd).
ReadOrWriteCalled == applied.op \in {"read", "write"}
RangeStart == applied.args[1]
RangeEnd ==
    RangeStart + (IF applied.op = "read" THEN applied.args[2]
                  ELSE Len(applied.args[2]))

\* C25: after read(offset, size) or write(offset, bytes) whose range ends
\* past the current memory length, the call has returned, the memory length
\* is the smallest multiple of 32 that is at least the end of the range, the
\* added bytes outside the written range are zero and the range lies inside
\* the memory; an access within the current length leaves the length
\* unchanged.
C25_ExpansionCoversRange ==
    ReadOrWriteCalled =>
        IF RangeEnd > Len(applied.before)
        THEN /\ applied.err = "None"
             /\ Len(memory) = Ceil32(RangeEnd)
             /\ RangeEnd <= Len(memory)
             /\ \A i \in (Len(applied.before) + 1)..Len(memory) :
                    (applied.op = "write" /\ i > RangeStart /\ i <= RangeEnd)
                        \/ memory[i] = 0
        ELSE /\ applied.err = "None"
             /\ Len(memory) = Len(applied.before)

\* read(0, 64) on the empty memory returned 64 bytes from a memory of 32.
C25_ReadPastMemory ==
    /\ applied.op = "read"
    /\ applied.before = <<>>
    /\ applied.args = <<0, 64>>
    /\ applied.err = "None"
    /\ Len(memory) = 32
    /\ applied.result[64] # 0

\* C26: store_word(offset, word) leaves the memory that write(offset, the 32
\* bytes of word) leaves on the same memory, and load_word(offset) returns
\* the bytes and leaves the memory length that read(offset, 32) does.
C26_WordOpsAreReadWrite ==
    [][/\ applied'.op = "mstore"
          => memory' = Memory_write(memory, applied'.args[1], applied'.args[2])
       /\ applied'.op = "mload"
          => /\ ~Memory_read_panics(memory, applied'.args[1], 32)
             /\ memory' = Memory_read_heap(memory, applied'.args[1], 32)
             /\ \A junk \in JunkBytes :
                    applied'.result
                        = Memory_read(memory, applied'.args[1], 32, junk)]_vars

\* store_word at offset 0 on the empty memory left 32 bytes where write of
\* the same word leaves 64.
C26_StoreWordShorterThanWrite ==
    /\ applied.op = "mstore"
    /\ applied.before = <<>>
    /\ applied.args[1] = 0
    /\ Len(memory) = 32
    /\ Len(Memory_write(applied.before, 0, applied.args[2])) = 64

(***************************************************************************)
(* The world state.                                                        *)
(***************************************************************************)
\* The last call was transfer(from, to, value).
TransferCalled == applied.op = "transfer"
TransferFrom == applied.args[1]
TransferTo == applied.args[2]
TransferValue == applied.args[3]
BalancesBefore == BalancesOf(applied.before.accounts)
BalancesAfter == BalancesOf(accounts)

\* C27: transfer(from, to, value) fails with static-violation in static mode,
\* with account-missing when either account has no record, with
\* insufficient-balance when from's balance is less than value, and then no
\* balance changes; otherwise from's balance decreases by value and to's
\* balance increases by value.
C27_TransferMovesValue ==
    TransferCalled =>
        IF static_mode
        THEN applied.err = "StaticCallStateChanged" /\ BalancesAfter = BalancesBefore
        ELSE IF {TransferFrom, TransferTo} \ DOMAIN applied.before.accounts # {}
        THEN applied.err = "AccountNotFound" /\ BalancesAfter = BalancesBefore
        ELSE IF U256_lt(BalancesBefore[TransferFrom], TransferValue)
        THEN applied.err = "InsufficientBalance" /\ BalancesAfter = BalancesBefore
        ELSE /\ applied.err = "None"
             /\ BalancesAfter[TransferFrom] =
                    IF TransferFrom = TransferTo THEN BalancesBefore[TransferFrom]
                    ELSE U256_sub(BalancesBefore[TransferFrom], TransferValue)
             /\ BalancesAfter[TransferTo] =
                    IF TransferFrom = TransferTo THEN BalancesBefore[TransferTo]
                    ELSE U256_add(BalancesBefore[TransferTo], TransferValue)
             /\ \A a \in DOMAIN BalancesAfter \ {TransferFrom, TransferTo} :
                    BalancesAfter[a] = BalancesBefore[a]

\* A transfer of one unit from the caller to itself has returned Ok and the
\* caller holds one unit more than before.
C27_SelfTransferMints ==
    /\ TransferCalled
    /\ applied.err = "None"
    /\ TransferFrom = TransferTo
    /\ TransferValue = pad_left(<<1>>)
    /\ BalancesAfter[TransferFrom]
           = U256_add(BalancesBefore[TransferFrom], TransferValue)

\* The storage of every account but a, with the slot s of a left out of a's.
StorageBut(accts, a, s) ==
    [b \in DOMAIN accts |->
        IF b = a
        THEN [k \in DOMAIN accts[b].storage \ {s} |-> accts[b].storage[k]]
        ELSE accts[b].storage]

\* sstore(a, s, v) has just returned Ok.
SstoreDone == applied.op = "sstore" /\ applied.err = "None"

\* C28: for an existing account a, sstore(a, s, v) outside static mode leaves
\* every other slot of a and every other account's storage unchanged, and the
\* sload(a, s) that follows it returns v; sload of a slot never written in an
\* existing account returns the zero word.
C28_SloadAfterSstore ==
    [][/\ (applied'.op = "sstore" /\ applied'.err = "None")
          => /\ applied'.args[1] \in DOMAIN accounts
             /\ ~static_mode
             /\ StorageBut(accounts', applied'.args[1], applied'.args[2])
                    = StorageBut(accounts, applied'.args[1], applied'.args[2])
       /\ (/\ SstoreDone
           /\ applied'.op = "sload"
           /\ applied'.args = <<applied.args[1], applied.args[2]>>)
          => applied'.result = applied.args[3]
       /\ (/\ applied'.op = "sload"
           /\ applied'.args[1] \in DOMAIN accounts
           /\ applied'.args[2] \notin DOMAIN accounts[applied'.args[1]].storage)
          => applied'.result = ZeroWord]_vars

\* sload has returned the word 7 that the sstore before it wrote to slot 1 of
\* the main account, whose slot 0 is still unwritten.
C28_LoadedStoredWord ==
    /\ applied.op = "sload"
    /\ applied.args = <<MainAddress, pad_left(<<1>>)>>
    /\ applied.result = pad_left(<<7>>)
    /\ applied.count = 2
    /\ DOMAIN accounts[MainAddress].storage = {pad_left(<<1>>)}

\* The last call was sload(account, slot) for an account without a record,
\* and the provider was asked.
SloadFetched ==
    /\ applied.op = "sload"
    /\ applied.args[1] \notin DOMAIN applied.before.accounts
    /\ applied.answer # <<>>

\* C29: when sload(account, slot) is called for an account that has no
\* record and the provider answers, the fetched word is returned and is
\* stored in that account's record before sload returns; when the provider
\* fails, sload returns the zero word.
C29_FetchedWordCached ==
    SloadFetched =>
        IF applied.answer[1].ok
        THEN /\ applied.result = applied.answer[1].value
             /\ applied.args[1] \in DOMAIN accounts
             /\ applied.args[2] \in DOMAIN accounts[applied.args[1]].storage
             /\ accounts[applied.args[1]].storage[applied.args[2]]
                    = applied.answer[1].value
        ELSE applied.result = ZeroWord

\* sload has returned the word the provider answered for an account without
\* a record, and the account still has no record.
C29_FetchedWordNotKept ==
    /\ SloadFetched
    /\ applied.answer[1].ok
    /\ applied.result = applied.answer[1].value
    /\ applied.args[1] \notin DOMAIN accounts

\* C30: in every reachable state every account's code_hash is the zero word
\* or a key of the code table.
C30_CodeHashesResolve ==
    \A a \in DOMAIN accounts :
        \/ accounts[a].code_hash = ZeroWord
        \/ accounts[a].code_hash \in DOMAIN codes

\* A CREATE has completed and the account it made carries the hash of the
\* code it deployed, next to an account that never had code.
C30_CreatedAccountResolves ==
    /\ lastOp.phase = "completed"
    /\ lastOp.op \in CreateOps
    /\ lastOp.to \in DOMAIN accounts \ DOMAIN lastOp.pre.accounts
    /\ accounts[lastOp.to].code_hash # ZeroWord
    /\ accounts[lastOp.to].code_hash \in DOMAIN codes \ DOMAIN lastOp.pre.codes
    /\ accounts[CallerAddress].code_hash = ZeroWord

\* The record init_account leaves for an address that had none.
FreshAccount ==
    [nonce |-> 1, balance |-> ZeroWord, storage |-> EmptyMap,
     code_hash |-> ZeroWord]

\* C31: init_account(address) on an address that has a record changes
\* nothing; on an address without a record it creates one with zero balance,
\* empty storage, zero code hash and nonce 1; a second init_account of the
\* same address right after the first changes nothing.
C31_InitAccountIdempotent ==
    [][applied'.op = "init_account"
          => LET a == applied'.args[1]
             IN /\ applied'.err = "None"
                /\ codes' = codes
                /\ a \in DOMAIN accounts => accounts' = accounts
                /\ a \notin DOMAIN accounts
                       => /\ DOMAIN accounts' = DOMAIN accounts \cup {a}
                          /\ accounts'[a] = FreshAccount
                          /\ \A b \in DOMAIN accounts : accounts'[b] = accounts[b]
                /\ (applied.op = "init_account" /\ applied.args = applied'.args)
                       => accounts' = accounts]_vars

\* init_account has been applied a second time to the address that had no
\* record at first, and the record is the one the first application made.
C31_InitAccountAppliedTwice ==
    /\ applied.op = "init_account"
    /\ applied.count = 2
    /\ applied.args = <<AddressD>>
    /\ AddressD \in DOMAIN applied.before.accounts
    /\ applied.before.accounts[AddressD] = FreshAccount
    /\ accounts = applied.before.accounts

(***************************************************************************)
(* The frame's inputs and outputs.                                         *)
(***************************************************************************)
\* A step of the running frame: interpret has been called, and no frame is
\* entered or left.
FrameStep == interpreting /\ interpreting' /\ callStack' = callStack

\* C32: no opcode modifies a frame's call data: a step of the frame leaves
\* the call data, and so the value CALLDATASIZE pushes, as it was when the
\* frame was entered.
C32_CallDataReadOnly == [][FrameStep => calldata' = calldata]_vars

\* The outermost frame, entered with empty call data, has run CALLDATASIZE,
\* CALLDATALOAD of offset 0 and CALLDATASIZE again: the sizes pushed are 0
\* and 32.
C32_CallDataSizeGrew ==
    /\ callStack = <<>>
    /\ bytecode = <<OP_CALLDATASIZE>> \o AsmCalldataload(0) \o <<OP_CALLDATASIZE>>
    /\ pc = Len(bytecode)
    /\ error = "None"
    /\ stack = <<ZeroWord, ZeroWord, pad_left(<<32>>)>>

\* The bytes of the memory mem in [offset, offset + size), memory past its
\* length reading as zero.
MemoryWindow(mem, offset, size) ==
    [i \in 1..size |-> IF offset + i <= Len(mem) THEN mem[offset + i] ELSE 0]

\* LOGn is about to execute with its n + 2 operands on the stack.
LogExecutes(n) == Running /\ opcode = OP_LOG0 + n /\ Len(stack) >= n + 2

\* The record LOGn is to append.
LogRecord(n) ==
    [address |-> address,
     topics |-> [k \in 1..n |-> Stack_nth(stack, 2 + k)],
     data |-> MemoryWindow(memory, as_usize(Stack_nth(stack, 1)),
                           as_usize(Stack_nth(stack, 2)))]

\* C33: LOGn executed outside a static sub-tree appends exactly one record to
\* the end of the log sequence, with the current callee's address, the n
\* topics in the order they were popped and the memory window as data, and
\* leaves the earlier records in place; inside a static sub-tree it fails
\* with the static violation and the log sequence is unchanged.
C33_LogAppendsOneRecord ==
    [][\A n \in {0, 2} :
          LogExecutes(n)
              => IF InStaticSubtree
                 THEN error' = "StaticCallStateChanged" /\ logs' = logs
                 ELSE error' = "None" /\ logs' = Append(logs, LogRecord(n))]_vars

\* LOG2 of the 64 bytes at offset 0 of the empty memory has appended a record
\* whose data is not 64 zero bytes.
C33_LoggedBytesPastMemory ==
    /\ bytecode = AsmLog2(0, 2 * WordSize, 7, 8)
    /\ pc = Len(bytecode)
    /\ error = "None"
    /\ logs # <<>>
    /\ logs[Len(logs)].topics = <<pad_left(<<7>>), pad_left(<<8>>)>>
    /\ logs[Len(logs)].data # Zeros(2 * WordSize)



\* The operands a handler of the arithmetic found: the k-th word it popped.
Operand(k) == Stack_nth(applied.before, k)

\* The word the handler pushed.
Pushed == Stack_nth(stack, 1)

ArithDone(op) == applied.op = op /\ applied.err = "None"

\* (a + b) mod c and (a * b) mod c over the unbounded integers, 0 for c = 0.
SumModulo(a, b, c) ==
    IF c = ZeroWord THEN ZeroWord
    ELSE Bytes_divrem(Bytes_add(a, b), c).remainder

ProductModulo(a, b, c) ==
    IF c = ZeroWord THEN ZeroWord
    ELSE Bytes_divrem(Bytes_mul(a, b), c).remainder

\* C34: ADDMOD pushes (a + b) mod c and MULMOD pushes (a * b) mod c, the sum
\* and the product taken over the unbounded integers; for c = 0 both push 0.
C34_ModuloOfUnboundedResult ==
    /\ ArithDone("addmod") => Pushed = SumModulo(Operand(1), Operand(2), Operand(3))
    /\ ArithDone("mulmod") => Pushed = ProductModulo(Operand(1), Operand(2), Operand(3))

\* ADDMOD of 2^256 - 1, 3 and 3 pushed 2: the sum was reduced modulo 2^256
\* before the remainder, which over the integers is 0.
C34_SumWrappedBeforeModulo ==
    /\ ArithDone("addmod")
    /\ Operand(1) = I256_minus_one
    /\ Operand(2) = pad_left(<<3>>)
    /\ Operand(3) = pad_left(<<3>>)
    /\ Pushed = pad_left(<<2>>)
    /\ SumModulo(Operand(1), Operand(2), Operand(3)) = ZeroWord


\* q is the quotient of a by b # 0 as signed words, truncated toward zero:
\* |q| * |b| <= |a| < |q| * |b| + |b|, and q, unless zero, is negative
\* exactly when the signs of a and b differ.
TruncatedQuotient(q, a, b) ==
    LET product == Bytes_mul(I256_unsigned_abs(q), I256_unsigned_abs(b))
        dividend == Zeros(WordSize) \o I256_unsigned_abs(a)
        divisor == Zeros(WordSize) \o I256_unsigned_abs(b)
    IN /\ ~Bytes_lt(dividend, product)
       /\ Bytes_lt(<<0>> \o dividend, Bytes_add(product, divisor))
       /\ q # ZeroWord =>
              (I256_is_negative(q) <=> (I256_is_negative(a) # I256_is_negative(b)))

\* C35: SDIV of the minimum signed value by minus one pushes the minimum
\* signed value, SDIV with a zero divisor pushes 0, and in every other case
\* SDIV pushes the two's-complement quotient truncated toward zero.
C35_SdivQuotient ==
    ArithDone("sdiv") =>
        IF Operand(2) = ZeroWord THEN Pushed = ZeroWord
        ELSE IF Operand(1) = I256_MIN /\ Operand(2) = I256_minus_one
        THEN Pushed = I256_MIN
        ELSE TruncatedQuotient(Pushed, Operand(1), Operand(2))

\* SDIV of the minimum signed value by minus one pushed 0.
C35_MinByMinusOneIsZero ==
    /\ ArithDone("sdiv")
    /\ Operand(1) = I256_MIN
    /\ Operand(2) = I256_minus_one
    /\ Pushed = ZeroWord


\* A handler returns an error to the loop of its frame.
HandlerFails == Running /\ callStack' = callStack /\ error' # "None"

\* s is what t holds beneath some number of its top words.
IsBottomOf(s, t) == Len(s) <= Len(t) /\ SubSeq(t, 1, Len(s)) = s

\* A frame whose handler has failed executes no further opcode: the only
\* step left is the return of interpret to the Runner::call that entered
\* the frame, which sees the error.
HaltsOnError ==
    error # "None" =>
        /\ Len(callStack') < Len(callStack)
        /\ lastOp'.outcome = Outcome(error)

\* The program counter designates the failing opcode.
KeepsPositionOnError ==
    HandlerFails => pc' = pc /\ bytecode' = bytecode

JumpFree(code) == \A i \in 1..Len(code) : code[i] \notin {OP_JUMP, OP_JUMPI}

\* A handler returns Ok to the loop of its frame without having entered a
\* sub-frame, and the handler of a CALL-class or CREATE-class opcode
\* returns Ok after its sub-frame has returned.
HandlerSucceeds == Running /\ callStack' = callStack /\ error' = "None"

HandlerSucceedsLate ==
    /\ interpreting
    /\ Len(callStack') < Len(callStack)
    /\ error' = "None"

\* C37: in bytecode without JUMP and JUMPI every successfully executed
\* opcode, a CALL-class or CREATE-class opcode included whatever the outcome
\* of its sub-frame, leaves the program counter of its frame strictly
\* greater than it was before the opcode, so that the frame executes at
\* most as many opcodes as its bytecode has bytes.
C37_CounterStrictlyIncreases ==
    [][/\ (HandlerSucceeds /\ JumpFree(bytecode)) =>
              pc' > pc /\ bytecode' = bytecode
       /\ (HandlerSucceedsLate /\ JumpFree(callStack[Len(callStack)].initial_bytecode)) =>
              /\ pc' > callStack[Len(callStack)].initial_pc
              /\ bytecode' = callStack[Len(callStack)].initial_bytecode]_vars

\* A CALL of an address without code has returned Ok to the loop of a frame
\* without JUMP and JUMPI, and the program counter is 1, before the CALL.
C37_CounterSetBack ==
    /\ lastOp.phase = "completed"
    /\ lastOp.outcome = "nocode"
    /\ error = "None"
    /\ JumpFree(bytecode)
    /\ bytecode = lastOp.pre.bytecode
    /\ pc = 1
    /\ pc < lastOp.pre.pc


\* The sum of the balances bal of the accounts in S, over the integers: a
\* number of WordSize + 8 bytes.
WideWord(word) == Zeros(8) \o word

WideAdd(a, b) == Bytes_low(Bytes_add(a, b), WordSize + 8)

RECURSIVE TotalOver(_, _)
TotalOver(bal, S) ==
    IF S = {} THEN WideWord(ZeroWord)
    ELSE LET a == CHOOSE x \in S : TRUE
         IN WideAdd(WideWord(bal[a]), TotalOver(bal, S \ {a}))

TotalBalance(bal) == TotalOver(bal, DOMAIN bal)

TransferSucceeded == TransferCalled /\ applied.err = "None"

\* C38: every successful transfer(from, to, value), from = to included,
\* leaves the sum of all balances unchanged, and when from = to it leaves
\* the balance of every account unchanged.
C38_TransferConservesTotal ==
    TransferSucceeded =>
        /\ TotalBalance(BalancesAfter) = TotalBalance(BalancesBefore)
        /\ TransferFrom = TransferTo => BalancesAfter = BalancesBefore

\* A successful transfer of a non-zero value from an account to itself has
\* raised the sum of all balances by the value.
C38_TotalGrewByValue ==
    /\ TransferSucceeded
    /\ TransferFrom = TransferTo
    /\ TransferValue # ZeroWord
    /\ TotalBalance(BalancesAfter) =
           WideAdd(TotalBalance(BalancesBefore), WideWord(TransferValue))


\* Two nonces have been serialised one after the other.
TwoNoncesStripped ==
    /\ applied.op = "strip_zero_padding"
    /\ applied.count = 2

\* The pre-image of the hash in CREATE's address derivation for the caller
\* prefix and a serialised nonce.
CreatePreimage(caller_, stripped) == <<214, 148>> \o caller_ \o stripped

\* C39: strip_zero_padding applied to the 32-byte big-endian encodings of two
\* different non-zero nonces gives two different byte strings, so that for
\* one address prefix the two nonces give different hash pre-images.
C39_NonceSerialisationInjective ==
    (TwoNoncesStripped /\ applied.args # applied.before.args) =>
        /\ applied.result # applied.before.result
        /\ CreatePreimage(CallerAddress, applied.result)
               # CreatePreimage(CallerAddress, applied.before.result)

\* The nonces 1 and 256 have both been serialised as the single byte 1.
C39_NoncesOneAnd256Collide ==
    /\ TwoNoncesStripped
    /\ applied.before.args = <<1>>
    /\ applied.args = <<256>>
    /\ applied.before.result = <<1>>
    /\ applied.result = <<1>>

====
